---- MODULE Spec2Model ----
(***************************************************************************)
(* A model of the dual-agent arbitration pipeline of AGI-lab:              *)
(*   debate.py      debate_once      (specification SpecDebate)            *)
(*   memoryloop.py  filter_memory    (specification SpecFilter)            *)
(*   validator.py   validate         (specification SpecValidate)          *)
(*   drift.py       DriftWindow, check_drift (specification SpecDrift)     *)
(*   trainer.py     schedule_training, micro_finetune_step                 *)
(*   metrics.py     log_micro_update (specification SpecTrainer)           *)
(*   runtest.py     main, run_cycle  (specification SpecCycle)             *)
(* Texts whose content never matters are represented by their length;     *)
(* texts that are split and compared are sequences of one-character        *)
(* strings.  Floating point confidences are integers in hundredths.        *)
(***************************************************************************)
EXTENDS Integers, Sequences, FiniteSets, TLC

VARIABLES
    \* ---- debate.py: two executions of debate_once on the same arguments
    seed,        \* state of the random.Random handed to debate_once
    user_input,  \* the user_input argument
    behaviour,   \* what llama_a / llama_b do when awaited: a response or Fail
    rng,         \* rng[r]: current state of run r's random source
    pc,          \* pc[r]: "start", "await" (suspended in gather), "done", "raised"
    mood,        \* mood[r][x]: mood sampled for agent x
    task,        \* task[r][x]: the asyncio task wrapping agent x's call
    calls,       \* calls[r][x]: times agent x's callable was invoked
    order,       \* order[r]: agents in the order their tasks finished
    outcome,     \* outcome[r]: <<>> or <<the returned dict>>
    \* ---- memoryloop.py: filter_memory
    _SEEN,       \* module-level set of chunks seen so far
    fpc,         \* "idle", "debate", "guardian", "raised"
    reasoning,   \* debate_json["reasoning"] of the current call
    tagged,      \* list of {"text", "tag"[, "debate_log"]}
    idx,         \* loop index (1-based position of the current candidate)
    status,      \* sub-debate status of the current candidate
    round,       \* rounds of the current candidate's sub-debate already run
    debate_log,  \* cand.debate_log of the current candidate
    validated, rejected, confidences,
    result,      \* <<>> or <<the dict returned by the last call>>
    hist,        \* per processed candidate: status, guardian verdict, destination
    guardian_calls, \* guardian_fn invocations in the current call
    guardian_args,  \* positional arguments of the latest guardian_fn call
    seen0,       \* _SEEN as it stood when the current call began
    ncalls,      \* filter_memory calls started so far
    \* ---- validator.py: validate
    v_openai,    \* whether "import openai" succeeded
    v_key,       \* what os.getenv(api_key_env) does
    vpc,         \* "start", "request", "sleep", "done", "raised"
    attempt,     \* the loop variable of "for attempt in range(retries)"
    delay,       \* the local delay
    requests,    \* ChatCompletion.create calls issued
    sleeps,      \* arguments of the time.sleep calls, in order
    v_log,       \* the logger.warning records, in order
    v_content,   \* <<>> or <<lines of the response that was parsed>>
    v_ret,       \* <<>> or <<the dict validate returned>>
    \* ---- drift.py: one DriftWindow and its use
    d_size,      \* self.size, the capacity given to the deque
    _window,     \* self._window
    d_inserted,  \* every sample passed to update so far, in order
    d_last,      \* the operation performed last
    d_summary,   \* <<>> or <<the dict compute_summary returned last>>
    d_drift,     \* <<>> or <<the value check_drift returned last>>
    \* ---- trainer.py, metrics.py
    _micro_state, \* module-level dict: agent -> accumulated credit
    m_log,       \* contents of metrics.json: agent -> {total_delta, steps}
    files,       \* contents of the files written by schedule_training, by path
    t_ops,       \* operations performed so far
    t_first_job, \* descriptor and dataset of the first job, as first written
    t_last,      \* arguments and surroundings of the operation performed last
    \* ---- runtest.py: main and run_cycle
    c_models,    \* <<settings.model_a_name, settings.model_b_name>>
    c_openai,    \* whether "import openai" succeeded in validator.py
    c_cycle,     \* i of "for i in range(10)"
    c_pc,        \* where the driver coroutine is
    c_rng,       \* state of rng = random.Random(0)
    c_task,      \* the two agent tasks of the gather in progress
    c_thread,    \* the worker thread running filter_memory
    c_result,    \* <<>> or <<the outcome of this cycle's debate>>
    c_seen,      \* memoryloop._SEEN
    c_mem,       \* <<>> or <<mem_out["validated"] of this cycle>>
    c_micro,     \* trainer._micro_state
    c_log,       \* contents of metrics.json
    c_files,     \* files written by schedule_training
    c_window,    \* drift_window._window
    c_summary,   \* <<>> or <<summary of this cycle>>
    c_drift,     \* <<>> or <<check_drift(summary) of this cycle>>
    c_sched,     \* the schedule_training calls of this cycle, in order
    c_stages     \* the stages of this cycle that are finished, in order

debateVars == <<seed, user_input, behaviour, rng, pc, mood, task, calls, order, outcome>>
filterVars == <<_SEEN, fpc, reasoning, tagged, idx, status, round, debate_log, validated,
                rejected, confidences, result, hist, guardian_calls, guardian_args,
                seen0, ncalls>>
validateVars == <<v_openai, v_key, vpc, attempt, delay, requests, sleeps, v_log,
                  v_content, v_ret>>
driftVars == <<d_size, _window, d_inserted, d_last, d_summary, d_drift>>
trainerVars == <<_micro_state, m_log, files, t_ops, t_first_job, t_last>>
cycleVars == <<c_models, c_openai, c_cycle, c_pc, c_rng, c_task, c_thread, c_result,
               c_seen, c_mem, c_micro, c_log, c_files, c_window, c_summary, c_drift,
               c_sched, c_stages>>
vars == <<debateVars, filterVars, validateVars, driftVars, trainerVars, cycleVars>>

Abs(n) == IF n < 0 THEN -n ELSE n

(***************************************************************************)
(* random.Random: a deterministic generator.  A state is a number; every   *)
(* draw advances it.  choice(seq) picks by the state and advances.         *)
(***************************************************************************)
RngMod == 16
MaxSeed == 3
Seeds == 0..MaxSeed

RngNext(s) == (5 * s + 3) % RngMod

Choice(s, seq) == [val |-> seq[(s % Len(seq)) + 1], rng |-> RngNext(s)]

\* mood.py 16-22
MOODS == <<"critical", "optimistic", "skeptical", "creative", "analytical">>

\* A sampler that may also come up with a mood outside the catalog.
pick_mood_uncatalogued(s) == Choice(s, Append(MOODS, "neutral"))

\* mood.py 25-33: return rng.choice(MOODS)
pick_mood(s) == Choice(s, MOODS)

(***************************************************************************)
(* debate.py                                                               *)
(***************************************************************************)
Runs == {1, 2}
Agents == {"A", "B"}
Inputs == {"q1", "q2"}

\* Agent responses.  A "chat" response carries choices[0].message.content of
\* the given length; a "raw" response has no "choices" key and is read as
\* str(resp), whose length is repr.
ExtraLens == 0
RespLens == {45, 50, 59, 60, 70} \cup {70 + 10 * k : k \in 1..ExtraLens}
Responses ==
    {[kind |-> "chat", content |-> n, repr |-> n + 40] : n \in RespLens}
    \cup {[kind |-> "raw", content |-> 0, repr |-> 55]}
Fail == [kind |-> "fail", content |-> 0, repr |-> 0]
NoResp == [kind |-> "none", content |-> 0, repr |-> 0]

\* resp.get("choices", [{"message": {"content": str(resp)}}])[0]["message"]["content"]
text_of(resp) == IF resp.kind = "chat" THEN resp.content ELSE resp.repr

TieThreshold == 10
TieNote == "similar length; random tie break"
LengthNote == "longer answer preferred"

\* A critique that sends lengths equal to the threshold to the tie-break.
DecideWinnerInclusive(s, la, lb) ==
    IF Abs(la - lb) <= TieThreshold
    THEN [winner |-> Choice(s, <<"A", "B">>).val, reasoning |-> TieNote,
          rng |-> RngNext(s)]
    ELSE [winner |-> IF la > lb THEN "A" ELSE "B", reasoning |-> LengthNote, rng |-> s]

\* A critique that compares strictly on both sides and has no tie-break.
DecideWinnerNoTieBreak(s, la, lb) ==
    [winner |-> IF la > lb THEN "A" ELSE IF lb > la THEN "B" ELSE "unset",
     reasoning |-> IF Abs(la - lb) < TieThreshold THEN TieNote ELSE LengthNote,
     rng |-> s]

\* debate.py 89-96: the cheap critique
DecideWinner(s, la, lb) ==
    IF Abs(la - lb) < TieThreshold
    THEN [winner |-> Choice(s, <<"A", "B">>).val, reasoning |-> TieNote,
          rng |-> RngNext(s)]
    ELSE [winner |-> IF la > lb THEN "A" ELSE "B", reasoning |-> LengthNote, rng |-> s]

NoTask == [st |-> "none", resp |-> NoResp]

\* Results handed back in the order the tasks finished.
GatherInCompletionOrder(r) ==
    <<task[r][order[r][1]].resp, task[r][order[r][2]].resp>>

\* asyncio.gather returns the results in argument order
GatherResults(r) == <<task[r]["A"].resp, task[r]["B"].resp>>

DebateInit ==
    /\ seed \in Seeds
    /\ user_input \in Inputs
    /\ behaviour \in [Agents -> Responses \cup {Fail}]
    /\ rng = [r \in Runs |-> seed]
    /\ pc = [r \in Runs |-> "start"]
    /\ mood = [r \in Runs |-> [x \in Agents |-> ""]]
    /\ task = [r \in Runs |-> [x \in Agents |-> NoTask]]
    /\ calls = [r \in Runs |-> [x \in Agents |-> 0]]
    /\ order = [r \in Runs |-> <<>>]
    /\ outcome = [r \in Runs |-> <<>>]

\* debate.py 77-84 up to the await: sample both moods, call both agents
\* (creating their coroutines) and hand them to gather, which schedules a
\* task for each; debate_once is then suspended.
Begin(r) ==
    /\ pc[r] = "start"
    /\ LET ma == pick_mood(rng[r])
           mb == pick_mood(ma.rng)
       IN /\ mood' = [mood EXCEPT ![r] = [A |-> ma.val, B |-> mb.val]]
          /\ rng' = [rng EXCEPT ![r] = mb.rng]
    /\ calls' = [calls EXCEPT ![r] = [x \in Agents |-> calls[r][x] + 1]]
    /\ task' = [task EXCEPT ![r] = [x \in Agents |-> [st |-> "pending", resp |-> NoResp]]]
    /\ pc' = [pc EXCEPT ![r] = "await"]
    /\ UNCHANGED <<seed, user_input, behaviour, order, outcome,
                   filterVars, validateVars, driftVars, trainerVars, cycleVars>>

\* The event loop runs the first step of each task in the order gather
\* created them.
TaskStart(r, x) ==
    /\ task[r][x].st = "pending"
    /\ x = "B" => task[r]["A"].st # "pending"
    /\ task' = [task EXCEPT ![r][x].st = "running"]
    /\ UNCHANGED <<seed, user_input, behaviour, rng, pc, mood, calls, order, outcome,
                   filterVars, validateVars, driftVars, trainerVars, cycleVars>>

\* An agent whose failed call is made again.
TaskRaiseRetry(r, x) ==
    /\ task[r][x].st = "running"
    /\ behaviour[x] = Fail
    /\ calls[r][x] < 2
    /\ task' = [task EXCEPT ![r][x].st = "pending"]
    /\ calls' = [calls EXCEPT ![r][x] = @ + 1]
    /\ UNCHANGED <<seed, user_input, behaviour, rng, pc, mood, order, outcome,
                   filterVars, validateVars, driftVars, trainerVars, cycleVars>>

\* The agent call returns its response.
TaskReturn(r, x) ==
    /\ task[r][x].st = "running"
    /\ behaviour[x] # Fail
    /\ task' = [task EXCEPT ![r][x] = [st |-> "done", resp |-> behaviour[x]]]
    /\ order' = [order EXCEPT ![r] = Append(@, x)]
    /\ UNCHANGED <<seed, user_input, behaviour, rng, pc, mood, calls, outcome,
                   filterVars, validateVars, driftVars, trainerVars, cycleVars>>

\* The agent call raises; nothing in debate_once calls it again.
TaskRaise(r, x) ==
    /\ task[r][x].st = "running"
    /\ behaviour[x] = Fail
    /\ task' = [task EXCEPT ![r][x].st = "failed"]
    /\ order' = [order EXCEPT ![r] = Append(@, x)]
    /\ UNCHANGED <<seed, user_input, behaviour, rng, pc, mood, calls, outcome,
                   filterVars, validateVars, driftVars, trainerVars, cycleVars>>

\* A tie-break drawn from a source other than the rng argument.
JoinUnseeded(r) ==
    /\ pc[r] = "await"
    /\ \A x \in Agents : task[r][x].st = "done"
    /\ LET res == GatherResults(r)
           ta == text_of(res[1])
           tb == text_of(res[2])
           d == DecideWinner(rng[r], ta, tb)
       IN \E w \in (IF Abs(ta - tb) < TieThreshold THEN {"A", "B"} ELSE {d.winner}) :
            /\ outcome' = [outcome EXCEPT ![r] =
                  <<[input |-> user_input, mood_a |-> mood[r]["A"], resp_a |-> ta,
                     mood_b |-> mood[r]["B"], resp_b |-> tb,
                     winner |-> w, reasoning |-> d.reasoning]>>]
            /\ rng' = [rng EXCEPT ![r] = d.rng]
    /\ pc' = [pc EXCEPT ![r] = "done"]
    /\ UNCHANGED <<seed, user_input, behaviour, mood, task, calls, order,
                   filterVars, validateVars, driftVars, trainerVars, cycleVars>>

\* debate.py 81-106 after the await: both tasks are done, gather resumes
\* debate_once with both results; extract the texts, decide, return.
Join(r) ==
    /\ pc[r] = "await"
    /\ \A x \in Agents : task[r][x].st = "done"
    /\ LET res == GatherResults(r)
           ta == text_of(res[1])
           tb == text_of(res[2])
           d == DecideWinner(rng[r], ta, tb)
       IN /\ outcome' = [outcome EXCEPT ![r] =
                <<[input |-> user_input, mood_a |-> mood[r]["A"], resp_a |-> ta,
                   mood_b |-> mood[r]["B"], resp_b |-> tb,
                   winner |-> d.winner, reasoning |-> d.reasoning]>>]
          /\ rng' = [rng EXCEPT ![r] = d.rng]
    /\ pc' = [pc EXCEPT ![r] = "done"]
    /\ UNCHANGED <<seed, user_input, behaviour, mood, task, calls, order,
                   filterVars, validateVars, driftVars, trainerVars, cycleVars>>

\* debate.py 81-84: gather hands the first exception to the awaiting
\* debate_once, which has no handler; the other task is left to run.
Propagate(r) ==
    /\ pc[r] = "await"
    /\ \E x \in Agents : task[r][x].st = "failed"
    /\ \A x \in Agents : task[r][x].st # "pending"
    /\ pc' = [pc EXCEPT ![r] = "raised"]
    /\ UNCHANGED <<seed, user_input, behaviour, rng, mood, task, calls, order, outcome,
                   filterVars, validateVars, driftVars, trainerVars, cycleVars>>

DebateNext ==
    \E r \in Runs :
        \/ Begin(r)
        \/ \E x \in Agents : TaskStart(r, x)
        \/ \E x \in Agents : TaskReturn(r, x)
        \/ \E x \in Agents : TaskRaise(r, x)
        \/ Join(r)
        \/ Propagate(r)

(***************************************************************************)
(* memoryloop.py                                                           *)
(***************************************************************************)
Terminators == {".", "?", "!"}
Whitespace == {" ", "\n"}

RECURSIVE LStrip(_)
LStrip(t) == IF t # <<>> /\ Head(t) \in Whitespace THEN LStrip(Tail(t)) ELSE t

RECURSIVE RStrip(_)
RStrip(t) ==
    IF t # <<>> /\ t[Len(t)] \in Whitespace THEN RStrip(SubSeq(t, 1, Len(t) - 1)) ELSE t

\* str.strip()
Strip(t) == RStrip(LStrip(t))

\* First position at or after i that holds no whitespace (Len(t) + 1 if none).
RECURSIVE SkipWhitespace(_, _)
SkipWhitespace(t, i) ==
    IF i <= Len(t) /\ t[i] \in Whitespace THEN SkipWhitespace(t, i + 1) ELSE i

\* re.split(r"[.?!]\s+", t) scanning from position i with the piece cur open
RECURSIVE SplitFrom(_, _, _)
SplitFrom(t, i, cur) ==
    IF i > Len(t) THEN <<cur>>
    ELSE IF t[i] \in Terminators /\ i + 1 <= Len(t) /\ t[i + 1] \in Whitespace
         THEN <<cur>> \o SplitFrom(t, SkipWhitespace(t, i + 1), <<>>)
         ELSE SplitFrom(t, i + 1, Append(cur, t[i]))

\* memoryloop.py 103-107
split_into_chunks(text) == SplitFrom(Strip(text), 1, <<>>)

NonEmpty(c) == c # <<>>

SetMax(S) == CHOOSE m \in S : \A n \in S : n <= m
SetMin(S) == CHOOSE m \in S : \A n \in S : m <= n

\* Length of the common run of a from i and b from j, inside a[..ahi], b[..bhi].
RECURSIVE CommonRun(_, _, _, _, _, _)
CommonRun(a, i, ahi, b, j, bhi) ==
    IF i > ahi \/ j > bhi \/ a[i] # b[j] THEN 0
    ELSE 1 + CommonRun(a, i + 1, ahi, b, j + 1, bhi)

\* difflib.SequenceMatcher.find_longest_match without junk: the longest
\* matching block of a[alo..ahi] and b[blo..bhi]; of several, the one starting
\* earliest in a, and of those the one starting earliest in b.
find_longest_match(a, alo, ahi, b, blo, bhi) ==
    LET pairs == (alo..ahi) \X (blo..bhi)
        best == SetMax({CommonRun(a, p[1], ahi, b, p[2], bhi) : p \in pairs} \cup {0})
    IN IF best = 0 THEN <<alo, blo, 0>>
       ELSE LET at == {p \in pairs : CommonRun(a, p[1], ahi, b, p[2], bhi) = best}
                i == SetMin({p[1] : p \in at})
                j == SetMin({p[2] : p \in {q \in at : q[1] = i}})
            IN <<i, j, best>>

\* Total size of difflib's matching blocks (get_matching_blocks): the longest
\* block, then recursively the pieces to its left and to its right.
RECURSIVE MatchSize(_, _, _, _, _, _)
MatchSize(a, alo, ahi, b, blo, bhi) ==
    IF alo > ahi \/ blo > bhi THEN 0
    ELSE LET m == find_longest_match(a, alo, ahi, b, blo, bhi)
         IN IF m[3] = 0 THEN 0
            ELSE m[3] + MatchSize(a, alo, m[1] - 1, b, blo, m[2] - 1)
                      + MatchSize(a, m[1] + m[3], ahi, b, m[2] + m[3], bhi)

\* SequenceMatcher(None, a, b).ratio() = 2.0 * M / T as the fraction <<2M, T>>
\* (1.0 when both are empty).
ratio(a, b) ==
    IF Len(a) + Len(b) = 0 THEN <<1, 1>>
    ELSE <<2 * MatchSize(a, 1, Len(a), b, 1, Len(b)), Len(a) + Len(b)>>

\* memoryloop.py 120-121: sim = max(ratio over _SEEN, default 0); sim > 0.8
SimilarityTenths == 8

\* A tagger for which a ratio equal to the threshold already counts.
IsKnownInclusive(c, seen) ==
    \E s \in seen : 10 * ratio(c, s)[1] >= SimilarityTenths * ratio(c, s)[2]

IsKnown(c, seen) ==
    \E s \in seen : 10 * ratio(c, s)[1] > SimilarityTenths * ratio(c, s)[2]

\* memoryloop.py 113-124: tag each chunk against the seen set as it stands
\* when the chunk is reached, then add the chunk to it.
RECURSIVE TagFrom(_, _, _, _)
TagFrom(chunks, i, seen, acc) ==
    IF i > Len(chunks) THEN [results |-> acc, seen |-> seen]
    ELSE TagFrom(chunks, i + 1, seen \cup {chunks[i]},
                 Append(acc, [text |-> chunks[i],
                              tag |-> IF IsKnown(chunks[i], seen) THEN "known" ELSE "new"]))

\* A tagger that starts every call from an empty set.
tag_with_local_model_fresh(chunks, seen) == TagFrom(chunks, 1, {}, <<>>)

\* memoryloop.py 113-124
tag_with_local_model(chunks, seen) == TagFrom(chunks, 1, seen, <<>>)

\* dict.get(key, default)
Get(d, key, default) == IF key \in DOMAIN d THEN d[key] ELSE default

RECURSIVE SeqSum(_)
SeqSum(s) == IF s = <<>> THEN 0 ELSE Head(s) + SeqSum(Tail(s))

\* An overall score that is the sum, not the mean.
avg_conf_sum(cf) == [num |-> SeqSum(cf), den |-> 1]

\* memoryloop.py 91: sum(confidences) / len(confidences) if confidences else 0.0,
\* as the fraction num / den
avg_conf(cf) ==
    IF cf = <<>> THEN [num |-> 0, den |-> 1] ELSE [num |-> SeqSum(cf), den |-> Len(cf)]

\* ---- inputs of filter_memory
MaxCalls == 2
\* debate_json["reasoning"]: missing or empty, blank, one sentence, a
\* terminator without whitespace after it, empty pieces, two sentences.
Reasonings ==
    { <<>>,
      <<" ">>,
      <<"a">>,
      <<"a", ".">>,
      <<"a", ".", "b">>,
      <<".", " ", ".", " ", "a">>,
      <<"a", ".", " ", "b">>,
      <<"a", "b", "!", " ", "a", "b", "b">>,
      <<"a", "b", "b", "b">>,
      <<" ", "a", "?", " ", "\n", "a", " ">> }

\* What guardian_fn may hand back: a dict with the three keys, or with some
\* missing.  Confidence in hundredths.
GuardianResults ==
    { [verdict |-> "accept", rationale |-> "", confidence |-> 90],
      [verdict |-> "reject", rationale |-> "unsafe", confidence |-> 90],
      [verdict |-> "rejected", rationale |-> "unsafe", confidence |-> 50],
      [verdict |-> "unsure", rationale |-> "Validator unreachable after retries.",
       confidence |-> 0],
      [verdict |-> "reject"],
      [rationale |-> "unsafe", confidence |-> 50] }

\* ---- the consensus sub-debate (memory_debate, max_rounds=2)
MaxRounds == 2
Stances == {"ACCEPT", "REJECT"}

\* A sub-debate that goes on until the two sides agree.
RoundStatusNoBudget(sa, sb, n) ==
    IF sa = "ACCEPT" /\ sb = "ACCEPT" THEN "ACCEPTED"
    ELSE IF sa = "REJECT" /\ sb = "REJECT" THEN "REJECTED"
    ELSE "PENDING"

\* Status after a round in which the two sides stated sa and sb, n rounds
\* having been run including this one.
RoundStatus(sa, sb, n) ==
    IF sa = "ACCEPT" /\ sb = "ACCEPT" THEN "ACCEPTED"
    ELSE IF sa = "REJECT" /\ sb = "REJECT" THEN "REJECTED"
    ELSE IF n >= MaxRounds THEN "DEADLOCKED"
    ELSE "PENDING"

RoundStatements(sa, sb, n) ==
    << [round |-> n, speaker |-> "MemoryA", stance |-> sa],
       [round |-> n, speaker |-> "MemoryB", stance |-> sb] >>

\* ---- filter_memory's decisions

\* Only a both-REJECT conclusion ends the candidate without the guardian.
SkipsGuardianOnlyRejected(st) == st = "REJECTED"

\* memoryloop.py 81: if status != "ACCEPTED"
SkipsGuardian(st) == st # "ACCEPTED"

\* A rejection entry that loses the status.
StatusRejectionNoReason(item, st) == [text |-> item.text, reason |-> ""]

\* memoryloop.py 82: {"text": item["text"], "reason": status}
StatusRejection(item, st) == [text |-> item.text, reason |-> st]

\* A deadlocked candidate that is not recorded at all.
RejectedAfterStatusDropDeadlock(rj, item, st) ==
    IF st = "DEADLOCKED" THEN rj ELSE Append(rj, StatusRejection(item, st))

\* memoryloop.py 82: rejected.append(...)
RejectedAfterStatus(rj, item, st) == Append(rj, StatusRejection(item, st))

\* A comparison against the wrong word.
IsRejectWrongWord(v) == Get(v, "verdict", "None") = "rejected"

\* A filter that keeps only what the guardian accepted.
IsRejectUnlessAccept(v) == Get(v, "verdict", "None") # "accept"

\* memoryloop.py 85: verdict.get("verdict") == "reject"
IsReject(v) == Get(v, "verdict", "None") = "reject"

\* memoryloop.py 86
GuardianRejection(item, v) == [text |-> item.text, reason |-> Get(v, "rationale", "")]

\* memoryloop.py 88
ValidatedEntry(item, v) ==
    [text |-> item.text, tag |-> item.tag, confidence |-> Get(v, "confidence", 0)]

\* Python values handed over as arguments: a str or a list.
PyStr(t) == [kind |-> "str", text |-> t, log |-> <<>>]
PyList(l) == [kind |-> "list", text |-> <<>>, log |-> l]

\* memoryloop.py 84: guardian_fn(item["text"], cand.debate_log)
GuardianCallArgs(item, log) == <<PyStr(item.text), PyList(log)>>

\* validator.py 26: def validate(payload, api_key_env="OPENAI_API_KEY"), as
\* bound by the positional call when guardian_fn is validate (runtest.py 30)
ValidateBinding(args) == [payload |-> args[1], api_key_env |-> args[2]]

\* Which list an entry went to in a step, and its position there.
Dest(v0, rj0, v1, rj1) ==
    IF Len(rj1) > Len(rj0) THEN [list |-> "rejected", pos |-> Len(rj1)]
    ELSE IF Len(v1) > Len(v0) THEN [list |-> "validated", pos |-> Len(v1)]
    ELSE [list |-> "none", pos |-> 0]

FilterInit ==
    /\ _SEEN = {}
    /\ fpc = "idle"
    /\ reasoning = <<>>
    /\ tagged = <<>>
    /\ idx = 0
    /\ status = "PENDING"
    /\ round = 0
    /\ debate_log = <<>>
    /\ validated = <<>>
    /\ rejected = <<>>
    /\ confidences = <<>>
    /\ result = <<>>
    /\ hist = <<>>
    /\ guardian_calls = 0
    /\ guardian_args = <<>>
    /\ seen0 = {}
    /\ ncalls = 0

\* memoryloop.py 91-97: the loop is over
Return(v, rj, cf) ==
    /\ fpc' = "idle"
    /\ result' = <<[validated |-> v, rejected |-> rj, confidence |-> avg_conf(cf)]>>

\* memoryloop.py 64-75 (and 91-97 when there is no candidate)
FilterStart(text) ==
    /\ fpc = "idle"
    /\ ncalls < MaxCalls
    /\ ncalls' = ncalls + 1
    /\ reasoning' = text
    /\ LET candidates == SelectSeq(split_into_chunks(text), NonEmpty)
           tg == tag_with_local_model(candidates, _SEEN)
       IN /\ tagged' = tg.results
          /\ _SEEN' = tg.seen
          /\ IF tg.results = <<>>
             THEN idx' = 0 /\ Return(<<>>, <<>>, <<>>)
             ELSE idx' = 1 /\ fpc' = "debate" /\ result' = <<>>
    /\ validated' = <<>>
    /\ rejected' = <<>>
    /\ confidences' = <<>>
    /\ hist' = <<>>
    /\ guardian_calls' = 0
    /\ guardian_args' = <<>>
    /\ seen0' = _SEEN
    /\ status' = "PENDING"
    /\ round' = 0
    /\ debate_log' = <<>>
    /\ UNCHANGED <<debateVars, validateVars, driftVars, trainerVars, cycleVars>>

\* memoryloop.py 77-78: the next candidate, or 91-97 after the last
Continue(v, rj, cf) ==
    /\ validated' = v
    /\ rejected' = rj
    /\ confidences' = cf
    /\ IF idx < Len(tagged)
       THEN /\ idx' = idx + 1
            /\ fpc' = "debate"
            /\ status' = "PENDING"
            /\ round' = 0
            /\ debate_log' = <<>>
            /\ result' = result
       ELSE /\ idx' = idx
            /\ Return(v, rj, cf)

\* One round of engine.debate_candidate(cand): both sides state a stance.
\* When the round concludes the sub-debate, debate_candidate returns and
\* filter_memory goes on (memoryloop.py 79-84): the log is stored on the item;
\* a status other than ACCEPTED is recorded in rejected, an ACCEPTED candidate
\* is handed to guardian_fn.
SubDebateRound(sa, sb) ==
    /\ fpc = "debate"
    /\ round < MaxRounds
    /\ LET n == round + 1
           log == debate_log \o RoundStatements(sa, sb, n)
           st == RoundStatus(sa, sb, n)
           item == [text |-> tagged[idx].text, tag |-> tagged[idx].tag,
                    debate_log |-> log]
       IN IF st = "PENDING"
          THEN /\ round' = n
               /\ debate_log' = log
               /\ UNCHANGED <<fpc, tagged, idx, status, validated, rejected,
                              confidences, result, hist, guardian_calls,
                              guardian_args>>
          ELSE /\ tagged' = [tagged EXCEPT ![idx] = item]
               /\ IF SkipsGuardian(st)
                  THEN LET rj == RejectedAfterStatus(rejected, item, st)
                       IN /\ hist' = Append(hist,
                                [text |-> item.text, status |-> st, called |-> FALSE,
                                 verdict |-> <<>>,
                                 dest |-> Dest(validated, rejected, validated, rj)])
                          /\ Continue(validated, rj, confidences)
                          /\ IF idx < Len(tagged) THEN TRUE
                             ELSE status' = st /\ round' = n /\ debate_log' = log
                          /\ UNCHANGED <<guardian_calls, guardian_args>>
                  ELSE /\ fpc' = "guardian"
                       /\ status' = st
                       /\ round' = n
                       /\ debate_log' = log
                       /\ guardian_calls' = guardian_calls + 1
                       /\ guardian_args' = GuardianCallArgs(item, log)
                       /\ UNCHANGED <<idx, validated, rejected, confidences,
                                      result, hist>>
    /\ UNCHANGED <<_SEEN, seen0, reasoning, ncalls, debateVars, validateVars, driftVars, trainerVars, cycleVars>>

\* memoryloop.py 84-89: guardian_fn returned the dict v
GuardianReturns(v) ==
    /\ fpc = "guardian"
    /\ LET item == tagged[idx]
           rj == IF IsReject(v) THEN Append(rejected, GuardianRejection(item, v))
                 ELSE rejected
           vd == IF IsReject(v) THEN validated
                 ELSE Append(validated, ValidatedEntry(item, v))
           cf == IF IsReject(v) THEN confidences
                 ELSE Append(confidences, Get(v, "confidence", 0))
       IN /\ hist' = Append(hist,
                [text |-> item.text, status |-> status, called |-> TRUE,
                 verdict |-> <<v>>, dest |-> Dest(validated, rejected, vd, rj)])
          /\ Continue(vd, rj, cf)
          /\ IF idx < Len(tagged) THEN TRUE
             ELSE UNCHANGED <<status, round, debate_log>>
    /\ UNCHANGED <<_SEEN, seen0, reasoning, tagged, guardian_calls, guardian_args,
                   ncalls, debateVars, validateVars, driftVars, trainerVars, cycleVars>>

\* guardian_fn raised: filter_memory has no handler, the call ends without
\* a result.
GuardianRaises ==
    /\ fpc = "guardian"
    /\ fpc' = "raised"
    /\ UNCHANGED <<_SEEN, reasoning, tagged, idx, status, round, debate_log, validated,
                   rejected, confidences, result, hist, guardian_calls, guardian_args,
                   seen0, ncalls, debateVars, validateVars, driftVars, trainerVars, cycleVars>>

FilterNext ==
    \/ \E text \in Reasonings : FilterStart(text)
    \/ \E sa \in Stances, sb \in Stances : SubDebateRound(sa, sb)
    \/ \E v \in GuardianResults : GuardianReturns(v)
    \/ GuardianRaises

(***************************************************************************)
(* validator.py: validate.  Strings are sequences of one-character         *)
(* strings; confidences are integers in hundredths.                        *)
(***************************************************************************)
LowerLetters == <<"a", "b", "c", "d", "e", "f", "g", "h", "i", "j", "k", "l", "m", "n", "o", "p", "q", "r", "s", "t", "u", "v", "w", "x", "y", "z">>
UpperLetters == <<"A", "B", "C", "D", "E", "F", "G", "H", "I", "J", "K", "L", "M", "N", "O", "P", "Q", "R", "S", "T", "U", "V", "W", "X", "Y", "Z">>

LetterIndex(letters, c) == CHOOSE i \in DOMAIN letters : letters[i] = c
IsIn(letters, c) == \E i \in DOMAIN letters : letters[i] = c

\* str.upper() and str.lower()
upper(s) ==
    [i \in DOMAIN s |->
        IF IsIn(LowerLetters, s[i]) THEN UpperLetters[LetterIndex(LowerLetters, s[i])]
        ELSE s[i]]
lower(s) ==
    [i \in DOMAIN s |->
        IF IsIn(UpperLetters, s[i]) THEN LowerLetters[LetterIndex(UpperLetters, s[i])]
        ELSE s[i]]

\* str.startswith(p)
startswith(s, p) == Len(s) >= Len(p) /\ SubSeq(s, 1, Len(p)) = p

\* line.split(":", 1)[1] for a line that holds a colon
AfterColon(line) ==
    LET k == SetMin({i \in DOMAIN line : line[i] = ":"})
    IN SubSeq(line, k + 1, Len(line))

\* float(s): <<value in hundredths>>, or <<>> when float raises ValueError
float(s) ==
    IF s = <<"0", ".", "9">> THEN <<90>>
    ELSE IF s = <<"1", ".", "5">> THEN <<150>>
    ELSE IF s = <<"-", "1">> THEN <<-100>>
    ELSE IF s = <<"0">> THEN <<0>>
    ELSE IF s = <<"1">> THEN <<100>>
    ELSE <<>>

VERDICT == <<"V", "E", "R", "D", "I", "C", "T", ":">>
RATIONALE == <<"R", "A", "T", "I", "O", "N", "A", "L", "E", ":">>
CONFIDENCE == <<"C", "O", "N", "F", "I", "D", "E", "N", "C", "E", ":">>
Unsure == <<"u", "n", "s", "u", "r", "e">>
OpenaiUnavailable == <<"o", "p", "e", "n", "a", "i", " ", "u", "n", "a", "v", "a", "i", "l", "a", "b", "l", "e">>
MissingKey == <<"m", "i", "s", "s", "i", "n", "g", " ", "A", "P", "I", " ", "k", "e", "y">>
Unreachable == <<"V", "a", "l", "i", "d", "a", "t", "o", "r", " ", "u", "n", "r", "e", "a", "c", "h", "a", "b", "l", "e", " ", "a", "f", "t", "e", "r", " ", "r", "e", "t", "r", "i", "e", "s", ".">>

\* A prefix test that takes the line as written.
HasPrefixExact(line, p) == startswith(line, p)

\* validator.py 77, 79, 81: line.upper().startswith(p)
HasPrefix(line, p) == startswith(upper(line), p)

\* validator.py 77-85: what one line does to the three fields
ParseLine(acc, line) ==
    IF HasPrefix(line, VERDICT)
    THEN [acc EXCEPT !.verdict = lower(Strip(AfterColon(line)))]
    ELSE IF HasPrefix(line, RATIONALE)
    THEN [acc EXCEPT !.rationale = Strip(AfterColon(line))]
    ELSE IF HasPrefix(line, CONFIDENCE)
    THEN LET f == float(Strip(AfterColon(line)))
         IN IF f = <<>> THEN acc ELSE [acc EXCEPT !.confidence = f[1]]
    ELSE acc

RECURSIVE ParseFrom(_, _, _)
ParseFrom(content, i, acc) ==
    IF i > Len(content) THEN acc
    ELSE ParseFrom(content, i + 1, ParseLine(acc, content[i]))

\* validator.py 73-86: the defaults, then every line of content.splitlines()
ParseContent(content) ==
    ParseFrom(content, 1, [verdict |-> Unsure, rationale |-> <<>>, confidence |-> 0])

\* ---- inputs of validate
\* Lines an arbiter response may hold.
ResponseLines ==
    { <<"V", "E", "R", "D", "I", "C", "T", ":", " ", "r", "e", "j", "e", "c", "t">>,
      <<"v", "e", "r", "d", "i", "c", "t", ":", " ", "A", "c", "c", "e", "p", "t", " ">>,
      <<"V", "E", "R", "D", "I", "C", "T", ":", " ", "m", "a", "y", "b", "e">>,
      <<" ", "V", "E", "R", "D", "I", "C", "T", ":", " ", "r", "e", "j", "e", "c", "t">>,
      <<"R", "A", "T", "I", "O", "N", "A", "L", "E", ":", " ", "o", "k", ":", " ", "f", "i", "n", "e">>,
      <<"C", "O", "N", "F", "I", "D", "E", "N", "C", "E", ":", " ", "0", ".", "9">>,
      <<"c", "o", "n", "f", "i", "d", "e", "n", "c", "e", ":", " ", "1", ".", "5">>,
      <<"C", "O", "N", "F", "I", "D", "E", "N", "C", "E", ":", " ", "h", "i", "g", "h">> }

MaxLines == 3
\* response["choices"][0]["message"]["content"].splitlines()
Contents == UNION {[1..n -> ResponseLines] : n \in 0..MaxLines}

\* os.getenv(api_key_env): a key, nothing, an empty string, or a TypeError
\* when api_key_env is not a str.
KeyStates == {"set", "unset", "empty", "notstr"}

retries == 3
InitialDelay == 2

\* A loop that allows one attempt more.
MoreAttemptsOneExtra(a) == a < retries

\* validator.py 62: for attempt in range(retries), after attempt a
MoreAttempts(a) == a + 1 < retries

\* A backoff that never grows.
NextDelayConstant(d) == d

\* validator.py 91: delay *= 2
NextDelay(d) == d * 2

UnsureResult(why) == [verdict |-> Unsure, rationale |-> why, confidence |-> 0]

ValidateInit ==
    /\ v_openai \in BOOLEAN
    /\ v_key \in KeyStates
    /\ vpc = "start"
    /\ attempt = 0
    /\ delay = 0
    /\ requests = 0
    /\ sleeps = <<>>
    /\ v_log = <<>>
    /\ v_content = <<>>
    /\ v_ret = <<>>

\* A validate call that sends its request without looking at the key.
ValidateStartNoKeyCheck ==
    /\ vpc = "start"
    /\ attempt' = 0
    /\ delay' = InitialDelay
    /\ requests' = requests + 1
    /\ vpc' = "request"
    /\ UNCHANGED <<v_openai, v_key, sleeps, v_log, v_content, v_ret, debateVars, filterVars, driftVars, trainerVars, cycleVars>>

\* validator.py 47-65: the two early returns, else the first request
ValidateStart ==
    /\ vpc = "start"
    /\ IF ~v_openai
       THEN /\ v_ret' = <<UnsureResult(OpenaiUnavailable)>>
            /\ vpc' = "done"
            /\ UNCHANGED <<attempt, delay, requests>>
       ELSE IF v_key = "notstr"
       THEN /\ vpc' = "raised"
            /\ UNCHANGED <<attempt, delay, requests, v_ret>>
       ELSE IF v_key \in {"unset", "empty"}
       THEN /\ v_ret' = <<UnsureResult(MissingKey)>>
            /\ vpc' = "done"
            /\ UNCHANGED <<attempt, delay, requests>>
       ELSE /\ attempt' = 0
            /\ delay' = InitialDelay
            /\ requests' = requests + 1
            /\ vpc' = "request"
            /\ UNCHANGED v_ret
    /\ UNCHANGED <<v_openai, v_key, sleeps, v_log, v_content, debateVars, filterVars, driftVars, trainerVars, cycleVars>>

\* validator.py 72-86: the request returned a response holding content
RequestReturns(content) ==
    /\ vpc = "request"
    /\ v_content' = <<content>>
    /\ v_ret' = <<ParseContent(content)>>
    /\ vpc' = "done"
    /\ UNCHANGED <<v_openai, v_key, attempt, delay, requests, sleeps, v_log,
                   debateVars, filterVars, driftVars, trainerVars, cycleVars>>

\* validator.py 88-90: the except branch up to time.sleep(delay); the warning
\* names the attempt and the exception
FailAttempt(cause) ==
    /\ v_log' = Append(v_log, [attempt |-> attempt + 1, cause |-> cause])
    /\ sleeps' = Append(sleeps, delay)
    /\ vpc' = "sleep"
    /\ UNCHANGED <<v_openai, v_key, attempt, delay, requests, v_content, v_ret,
                   debateVars, filterVars, driftVars, trainerVars, cycleVars>>

\* validator.py 65-70: ChatCompletion.create raised
RequestRaises ==
    /\ vpc = "request"
    /\ FailAttempt("request failed")

\* validator.py 72: the response lacks choices[0].message.content, or the
\* content is not a string; the lookup raises inside the try
ResponseMalformed ==
    /\ vpc = "request"
    /\ FailAttempt("malformed response")

\* validator.py 91-98 and 62-65: the sleep is over; the delay doubles, then
\* the next attempt sends its request, or the loop is exhausted
SleepEnds ==
    /\ vpc = "sleep"
    /\ delay' = NextDelay(delay)
    /\ attempt' = attempt + 1
    /\ IF MoreAttempts(attempt)
       THEN /\ requests' = requests + 1
            /\ vpc' = "request"
            /\ UNCHANGED v_ret
       ELSE /\ v_ret' = <<UnsureResult(Unreachable)>>
            /\ vpc' = "done"
            /\ UNCHANGED requests
    /\ UNCHANGED <<v_openai, v_key, sleeps, v_log, v_content, debateVars, filterVars, driftVars, trainerVars, cycleVars>>

ValidateNext ==
    \/ ValidateStart
    \/ \E content \in Contents : RequestReturns(content)
    \/ RequestRaises
    \/ ResponseMalformed
    \/ SleepEnds

(***************************************************************************)
(* drift.py: DriftWindow and check_drift.  Rates are integers in           *)
(* hundredths, length deltas are characters; a mean is the fraction        *)
(* num / den.                                                              *)
(***************************************************************************)
MaxWindow == 3
MaxUpdates == 4

MetricKeys == {"agreement_rate", "guardian_override_rate", "avg_response_length_delta"}

\* Samples handed to update: inside the bounds, on the three bounds, one
\* metric out of bounds at a time, and a dict that lacks two of the keys.
DriftSamples ==
    { [agreement_rate |-> 100, guardian_override_rate |-> 0,
       avg_response_length_delta |-> 0],
      [agreement_rate |-> 40, guardian_override_rate |-> 50,
       avg_response_length_delta |-> 100],
      [agreement_rate |-> 39, guardian_override_rate |-> 0,
       avg_response_length_delta |-> 0],
      [agreement_rate |-> 100, guardian_override_rate |-> 51,
       avg_response_length_delta |-> 0],
      [agreement_rate |-> 100, guardian_override_rate |-> 0,
       avg_response_length_delta |-> 101],
      [agreement_rate |-> 100] }

\* A window that refuses a sample when it is full.
DequeAppendDropNewest(w, m, maxlen) ==
    IF Len(w) >= maxlen THEN w ELSE Append(w, m)

\* drift.py 42, 48: deque(maxlen=size).append(m); a full deque discards its
\* leftmost item, a deque of maxlen 0 stays empty
DequeAppend(w, m, maxlen) ==
    IF maxlen = 0 THEN w
    ELSE IF Len(w) = maxlen THEN Append(Tail(w), m)
    ELSE Append(w, m)

RECURSIVE FieldSum(_, _)
\* drift.py 63-65: summary[k] += m.get(k, 0.0) over the window
FieldSum(w, k) ==
    IF w = <<>> THEN 0 ELSE Get(Head(w), k, 0) + FieldSum(Tail(w), k)

Zero == [num |-> 0, den |-> 1]

\* A summary that reports full agreement for an empty window.
compute_summary_neutral_when_empty(w, size) ==
    IF Len(w) = 0
    THEN [k \in MetricKeys |->
             IF k = "agreement_rate" THEN [num |-> 100, den |-> 1] ELSE Zero]
    ELSE [k \in MetricKeys |-> [num |-> FieldSum(w, k), den |-> Len(w)]]

\* A summary that divides by the capacity instead of the number of samples.
compute_summary_by_capacity(w, size) ==
    IF w = <<>> THEN [k \in MetricKeys |-> Zero]
    ELSE [k \in MetricKeys |-> [num |-> FieldSum(w, k), den |-> size]]

\* drift.py 50-68
compute_summary(w, size) ==
    IF w = <<>> THEN [k \in MetricKeys |-> Zero]
    ELSE [k \in MetricKeys |-> [num |-> FieldSum(w, k), den |-> Len(w)]]

\* fraction f < c and f > c, for a fraction with a positive denominator
Below(f, c) == f.num < c * f.den
Above(f, c) == f.num > c * f.den

AgreementFloor == 40
OverrideCeiling == 50
LengthDeltaCeiling == 100

\* A detector for which an agreement rate on the floor already is drift.
check_drift_inclusive(metrics) ==
    \/ ~Above(Get(metrics, "agreement_rate", [num |-> 100, den |-> 1]), AgreementFloor)
    \/ Above(Get(metrics, "guardian_override_rate", Zero), OverrideCeiling)
    \/ Above(Get(metrics, "avg_response_length_delta", Zero), LengthDeltaCeiling)

\* drift.py 74-100
check_drift(metrics) ==
    \/ Below(Get(metrics, "agreement_rate", [num |-> 100, den |-> 1]), AgreementFloor)
    \/ Above(Get(metrics, "guardian_override_rate", Zero), OverrideCeiling)
    \/ Above(Get(metrics, "avg_response_length_delta", Zero), LengthDeltaCeiling)

DriftInit ==
    /\ d_size \in 0..MaxWindow
    /\ _window = <<>>
    /\ d_inserted = <<>>
    /\ d_last = "__init__"
    /\ d_summary = <<>>
    /\ d_drift = <<>>

\* DriftWindow.update(metrics)
Update(m) ==
    /\ Len(d_inserted) < MaxUpdates
    /\ _window' = DequeAppend(_window, m, d_size)
    /\ d_inserted' = Append(d_inserted, m)
    /\ d_last' = "update"
    /\ UNCHANGED <<d_size, d_summary, d_drift>>
    /\ UNCHANGED <<debateVars, filterVars, validateVars, trainerVars, cycleVars>>

\* DriftWindow.compute_summary()
ComputeSummary ==
    /\ d_summary' = <<compute_summary(_window, d_size)>>
    /\ d_last' = "compute_summary"
    /\ UNCHANGED <<d_size, _window, d_inserted, d_drift>>
    /\ UNCHANGED <<debateVars, filterVars, validateVars, trainerVars, cycleVars>>

\* check_drift(summary) on the summary computed last (runtest.py 41-43)
CheckDrift ==
    /\ d_summary # <<>>
    /\ d_drift' = <<check_drift(d_summary[1])>>
    /\ d_last' = "check_drift"
    /\ UNCHANGED <<d_size, _window, d_inserted, d_summary>>
    /\ UNCHANGED <<debateVars, filterVars, validateVars, trainerVars, cycleVars>>

DriftNext ==
    \/ \E m \in DriftSamples : Update(m)
    \/ ComputeSummary
    \/ CheckDrift

(***************************************************************************)
(* trainer.py and metrics.py.  Confidences are integers in hundredths;     *)
(* credits and deltas are integers in thousandths (delta = |diff| / 1000). *)
(***************************************************************************)
MaxOps == 3

\* (model_a, model_b) as passed by the caller; config.py names both "llama3"
AgentPairs == {<<"llama3", "llama3">>, <<"agentA", "agentB">>}
Targets == {"llama3", "agentA", "agentB"}

\* (len(resp_a), len(resp_b)): equal, and either side shorter by 500 or 1100
LengthPairs == {<<500, 500>>, <<0, 500>>, <<500, 0>>, <<0, 1100>>, <<1100, 0>>}

HQ(t) == [text |-> t, tag |-> "new", confidence |-> 90]
Edge(t) == [text |-> t, tag |-> "new", confidence |-> 80]
Known(t) == [text |-> t, tag |-> "known", confidence |-> 95]
NoConf(t) == [text |-> t, tag |-> "new"]

\* Lists of memories handed to schedule_training and micro_finetune_step:
\* none, one, four qualifying and one on the confidence bound, five
\* qualifying, five qualifying among others.
MemoryLists ==
    { <<>>,
      <<HQ("m1")>>,
      <<HQ("m1"), HQ("m2"), Edge("m3"), HQ("m4"), HQ("m5")>>,
      <<HQ("m1"), HQ("m2"), HQ("m3"), HQ("m4"), HQ("m5")>>,
      <<Known("m1"), HQ("m2"), HQ("m3"), Edge("m4"), HQ("m5"), HQ("m6"),
        NoConf("m7"), HQ("m8")>> }

QualityFloor == 80
MinSelected == 5

\* A selection that admits a confidence on the floor.
QualifiesInclusive(m) ==
    Get(m, "tag", "None") = "new" /\ Get(m, "confidence", 0) >= QualityFloor

\* trainer.py 52: m.get("tag") == "new" and m.get("confidence", 0) > 0.8
Qualifies(m) ==
    Get(m, "tag", "None") = "new" /\ Get(m, "confidence", 0) > QualityFloor

\* trainer.py 51-53
Selected(memories) == SelectSeq(memories, Qualifies)

\* repr(text): the text between quotes
Repr(t) == <<"'", t, "'">>

\* A dataset written from every memory passed in.
DatasetFromAll(memories) ==
    [i \in DOMAIN memories |->
        [prompt |-> Repr(memories[i].text), response |-> Repr(memories[i].text)]]

\* trainer.py 61, 73-80: one line per selected memory
DatasetFrom(memories) ==
    LET sel == Selected(memories)
    IN [i \in DOMAIN sel |->
           [prompt |-> Repr(sel[i].text), response |-> Repr(sel[i].text)]]

DatasetPath == "data/lora_train.jsonl"
ModelfilePath == "data/lora_train.Modelfile"

\* trainer.py 86-93: the two lines of the Modelfile
ModelfileFor(base_model, dataset_path) ==
    << <<"FROM", base_model>>, <<"TRAIN", dataset_path>> >>

\* open(path, "w") ... write: the file holds exactly the new content
WriteFile(fs, path, content) ==
    [p \in (DOMAIN fs) \cup {path} |-> IF p = path THEN content ELSE fs[p]]

\* trainer.py 25-67: the return value and the files afterwards
schedule_training(memories, target_model, fs) ==
    IF Len(Selected(memories)) < MinSelected
    THEN [ret |-> "None", files |-> fs]
    ELSE [ret |-> ModelfilePath,
          files |-> WriteFile(WriteFile(fs, DatasetPath, DatasetFrom(memories)),
                              ModelfilePath, ModelfileFor(target_model, DatasetPath))]

\* dict assignment d[key] = value
Put(d, key, value) ==
    [k \in (DOMAIN d) \cup {key} |-> IF k = key THEN value ELSE d[k]]

\* A log whose total keeps only the latest delta.
log_micro_update_overwrite(data, model, delta, ts) ==
    LET entry == IF model \in DOMAIN data THEN data[model]
                 ELSE [total_delta |-> 0, steps |-> <<>>]
    IN [k \in (DOMAIN data) \cup {model} |->
           IF k = model
           THEN [total_delta |-> delta,
                 steps |-> Append(entry.steps, [ts |-> ts, delta |-> delta])]
           ELSE data[k]]

\* metrics.py 20-33: the contents of metrics.json afterwards
log_micro_update(data, model, delta, ts) ==
    LET entry == Get(data, model, [total_delta |-> 0, steps |-> <<>>])
    IN Put(data, model,
           [total_delta |-> entry.total_delta + delta,
            steps |-> Append(entry.steps, [ts |-> ts, delta |-> delta])])

CreditCeiling == 1000

\* A trigger that fires as soon as the credit reaches the ceiling.
TriggersAtCeiling(credit, validated_list) ==
    credit >= CreditCeiling /\ validated_list # <<>>

\* A trigger that ignores whether there are validated memories.
TriggersIgnoringValidated(credit, validated_list) == credit > CreditCeiling

\* trainer.py 122: _micro_state[loser] > 1.0 and validated
Triggers(credit, validated_list) == credit > CreditCeiling /\ validated_list # <<>>

\* The agent with the longer response.
LongerOf(diff, model_a, model_b) == IF diff > 0 THEN model_a ELSE model_b

\* A loser named by its side of the debate instead of its identifier.
LoserBySide(diff, model_a, model_b) == IF diff < 0 THEN "A" ELSE "B"

\* trainer.py 113: loser = model_a if diff < 0 else model_b
Loser(diff, model_a, model_b) == IF diff < 0 THEN model_a ELSE model_b

\* A step that nudges even when the lengths are equal.
IsNoOpNever(diff) == FALSE

\* trainer.py 111: if diff == 0: return
IsNoOp(diff) == diff = 0

NoJob == [descriptor |-> <<>>, dataset |-> <<>>]

TrainerInit ==
    /\ _micro_state = <<>>
    /\ m_log = <<>>
    /\ files = <<>>
    /\ t_ops = 0
    /\ t_first_job = NoJob
    /\ t_last = [op |-> "none"]

\* What the operation just performed was given and found.
LastOp(op, diff, pair, nonempty, memories, target, invoked, ret) ==
    [op |-> op, diff |-> diff, pair |-> pair, nonempty |-> nonempty,
     memories |-> memories,
     target |-> target, invoked |-> invoked, ret |-> ret,
     prev |-> IF t_last.op = "micro_finetune_step"
              THEN <<t_last.diff, t_last.pair>> ELSE <<0, <<>>>>,
     credit_before |-> _micro_state, log_before |-> m_log, files_before |-> files]

\* The first job created, as it was written.
FirstJob(fs) ==
    IF t_first_job # NoJob \/ ModelfilePath \notin DOMAIN fs THEN t_first_job
    ELSE [descriptor |-> <<fs[ModelfilePath]>>, dataset |-> <<fs[DatasetPath]>>]

\* A direct call that also clears the target's credit.
ScheduleTrainingResetting(memories, target_model) ==
    /\ t_ops < MaxOps
    /\ t_ops' = t_ops + 1
    /\ LET out == schedule_training(memories, target_model, files)
       IN /\ files' = out.files
          /\ t_first_job' = FirstJob(out.files)
          /\ t_last' = LastOp("schedule_training", 0, <<>>, memories # <<>>, memories,
                              target_model,
                              TRUE, out.ret)
    /\ _micro_state' = [k \in DOMAIN _micro_state |->
                           IF k = target_model THEN 0 ELSE _micro_state[k]]
    /\ UNCHANGED m_log
    /\ UNCHANGED <<debateVars, filterVars, validateVars, driftVars, cycleVars>>

\* schedule_training(memories, target_model) called directly (runtest.py 45)
ScheduleTraining(memories, target_model) ==
    /\ t_ops < MaxOps
    /\ t_ops' = t_ops + 1
    /\ LET out == schedule_training(memories, target_model, files)
       IN /\ files' = out.files
          /\ t_first_job' = FirstJob(out.files)
          /\ t_last' = LastOp("schedule_training", 0, <<>>, memories # <<>>, memories,
                              target_model,
                              TRUE, out.ret)
    /\ UNCHANGED <<_micro_state, m_log>>
    /\ UNCHANGED <<debateVars, filterVars, validateVars, driftVars, cycleVars>>

\* trainer.py 102-126
MicroFinetuneStep(lens, validated_list, pair) ==
    /\ t_ops < MaxOps
    /\ t_ops' = t_ops + 1
    /\ LET diff == lens[1] - lens[2]
           loser == Loser(diff, pair[1], pair[2])
           delta == Abs(diff)
           credit == Get(_micro_state, loser, 0) + delta
           out == schedule_training(validated_list, loser, files)
       IN IF IsNoOp(diff)
          THEN /\ t_last' = LastOp("micro_finetune_step", diff, pair,
                                   validated_list # <<>>, <<>>, "", FALSE, "None")
               /\ UNCHANGED <<_micro_state, m_log, files, t_first_job>>
          ELSE /\ m_log' = log_micro_update(m_log, loser, delta, t_ops + 1)
               /\ IF Triggers(credit, validated_list)
                  THEN /\ files' = out.files
                       /\ t_first_job' = FirstJob(out.files)
                       /\ _micro_state' = Put(_micro_state, loser, 0)
                       /\ t_last' = LastOp("micro_finetune_step", diff, pair,
                                           validated_list # <<>>,
                                           validated_list, loser, TRUE, out.ret)
                  ELSE /\ _micro_state' = Put(_micro_state, loser, credit)
                       /\ t_last' = LastOp("micro_finetune_step", diff, pair,
                                           validated_list # <<>>, <<>>, "", FALSE,
                                           "None")
                       /\ UNCHANGED <<files, t_first_job>>
    /\ UNCHANGED <<debateVars, filterVars, validateVars, driftVars, cycleVars>>

TrainerNext ==
    \/ \E ms \in MemoryLists, tm \in Targets : ScheduleTraining(ms, tm)
    \/ \E lens \in LengthPairs, ms \in MemoryLists, pair \in AgentPairs :
          MicroFinetuneStep(lens, ms, pair)

(***************************************************************************)
(* runtest.py: the cycle driver.  main() runs run_cycle ten times on one   *)
(* event loop; run_cycle awaits debate_once (whose two agent calls are     *)
(* tasks of that loop), then filter_memory in a worker thread, and runs    *)
(* the remaining stages synchronously.  The agents are the offline stub of *)
(* llama_api.chat; the guardian is validator.validate.                     *)
(***************************************************************************)
DriverCycles == 10
DriverWindowSize == 10
DriverSeed == 0

LongModelTag ==
    "registry.example.org/research/debate-agents/llama3-70b-instruct-long-context-q4_K_M-finetuned-on-validated-memories:2024-06-rc1"

\* (MODEL_A_NAME, MODEL_B_NAME) of the environment: the defaults, names whose
\* lengths differ by 1, by 16, and by 121
DriverModels ==
    { <<"llama3", "llama3">>,
      <<"llama3", "mistral">>,
      <<"llama3:70b-instruct-q4", "llama3">>,
      <<"llama3", LongModelTag>> }

\* runtest.py 68: f"Test cycle {i}", i < 10
InputLength(i) == Len("Test cycle ") + 1

\* llama_api.py 67-70: len(f"{model.upper()}>>> {user_text}".strip())
StubResponseLength(model, input_len) == Len(model) + Len(">>> ") + input_len

\* The two notes with the break of a sentence in them.
NoteTextTwoSentences(note) ==
    IF note = TieNote
    THEN <<"s", "i", "m", "i", "l", "a", "r", " ", "l", "e", "n", "g", "t", "h", ".", " ", "r", "a", "n", "d", "o", "m", " ", "t", "i", "e", " ", "b", "r", "e", "a", "k">>
    ELSE <<"l", "o", "n", "g", "e", "r", " ", "a", "n", "s", "w", "e", "r", ".", " ", "p", "r", "e", "f", "e", "r", "r", "e", "d">>

\* debate.py 92, 95: the characters of the two notes
NoteText(note) ==
    IF note = TieNote
    THEN <<"s", "i", "m", "i", "l", "a", "r", " ", "l", "e", "n", "g", "t", "h", ";", " ", "r", "a", "n", "d", "o", "m", " ", "t", "i", "e", " ", "b", "r", "e", "a", "k">>
    ELSE <<"l", "o", "n", "g", "e", "r", " ", "a", "n", "s", "w", "e", "r", " ", "p", "r", "e", "f", "e", "r", "r", "e", "d">>

\* Statuses a sub-debate can conclude with
SubDebateOutcomes ==
    {RoundStatus(sa, sb, n) : sa \in Stances, sb \in Stances, n \in 1..MaxRounds}
        \ {"PENDING"}

\* validator.py 47-49, in the vocabulary of filter_memory
DriverUnsure == [verdict |-> "unsure", rationale |-> "openai unavailable", confidence |-> 0]

\* memoryloop.py 77-89 with guardian_fn = validate (runtest.py 30): the
\* guardian is called with (text, debate_log); with openai imported the log is
\* handed to os.getenv, which raises TypeError; without it validate returns
\* unsure at once.
RECURSIVE JudgeFrom(_, _, _, _, _)
JudgeFrom(tg, sts, i, v, openai) ==
    IF i > Len(tg) THEN [raised |-> FALSE, validated |-> v]
    ELSE IF SkipsGuardian(sts[i]) THEN JudgeFrom(tg, sts, i + 1, v, openai)
    ELSE IF openai THEN [raised |-> TRUE, validated |-> <<>>]
    ELSE IF IsReject(DriverUnsure) THEN JudgeFrom(tg, sts, i + 1, v, openai)
    ELSE JudgeFrom(tg, sts, i + 1, Append(v, ValidatedEntry(tg[i], DriverUnsure)),
                   openai)

\* A sample that counts agreement only when side A won.
CycleMetricsWinnerA(res) ==
    [agreement_rate |-> IF Get(res, "winner", "None") = "A" THEN 100 ELSE 0,
     guardian_override_rate |->
         IF Get(res, "guardian_verdict", "None") = "override" THEN 100 ELSE 0,
     avg_response_length_delta |-> Abs(res.resp_a - res.resp_b)]

\* runtest.py 35-39
CycleMetrics(res) ==
    [agreement_rate |-> IF Get(res, "winner", "None") \in {"A", "B"} THEN 100 ELSE 0,
     guardian_override_rate |->
         IF Get(res, "guardian_verdict", "None") = "override" THEN 100 ELSE 0,
     avg_response_length_delta |-> Abs(res.resp_a - res.resp_b)]

NoThread == [st |-> "none", tagged |-> <<>>, raised |-> FALSE]

\* main() up to the loop (runtest.py 51-66)
CycleInit ==
    /\ c_models \in DriverModels
    /\ c_openai \in BOOLEAN
    /\ c_cycle = 0
    /\ c_pc = "main"
    /\ c_rng = DriverSeed
    /\ c_task = [x \in Agents |-> [st |-> "none", len |-> 0]]
    /\ c_thread = NoThread
    /\ c_result = <<>>
    /\ c_seen = {}
    /\ c_mem = <<>>
    /\ c_micro = <<>>
    /\ c_log = <<>>
    /\ c_files = <<>>
    /\ c_window = <<>>
    /\ c_summary = <<>>
    /\ c_drift = <<>>
    /\ c_sched = <<>>
    /\ c_stages = <<>>

CycleParked ==
    /\ c_models = <<"llama3", "llama3">>
    /\ c_openai = FALSE
    /\ c_cycle = 0
    /\ c_pc = "main"
    /\ c_rng = DriverSeed
    /\ c_task = [x \in Agents |-> [st |-> "none", len |-> 0]]
    /\ c_thread = NoThread
    /\ c_result = <<>>
    /\ c_seen = {}
    /\ c_mem = <<>>
    /\ c_micro = <<>>
    /\ c_log = <<>>
    /\ c_files = <<>>
    /\ c_window = <<>>
    /\ c_summary = <<>>
    /\ c_drift = <<>>
    /\ c_sched = <<>>
    /\ c_stages = <<>>

OtherVars == <<debateVars, filterVars, validateVars, driftVars, trainerVars>>

\* runtest.py 67-68 and 18-28, debate.py 77-84 up to the await: the next
\* run_cycle begins, debate_once samples the moods and gathers the two agent
\* calls; the driver is suspended until both tasks are done.
StartCycle ==
    /\ c_pc = "main"
    /\ c_cycle < DriverCycles
    /\ c_rng' = pick_mood(pick_mood(c_rng).rng).rng
    /\ c_task' = [x \in Agents |-> [st |-> "pending", len |-> 0]]
    /\ c_pc' = "gather"
    /\ c_result' = <<>>
    /\ c_mem' = <<>>
    /\ c_summary' = <<>>
    /\ c_drift' = <<>>
    /\ c_sched' = <<>>
    /\ c_stages' = <<>>
    /\ UNCHANGED <<c_models, c_openai, c_cycle, c_thread, c_seen, c_micro, c_log,
                   c_files, c_window>>
    /\ UNCHANGED OtherVars

\* llama_api.py 58-70 as called by runtest.py 23-24: the stub has no await,
\* so a task runs to its end in one step of the loop; the loop starts the
\* tasks in the order gather created them.
AgentCall(x) ==
    /\ c_task[x].st = "pending"
    /\ x = "B" => c_task["A"].st = "done"
    /\ c_task' = [c_task EXCEPT ![x] =
           [st |-> "done",
            len |-> StubResponseLength(IF x = "A" THEN c_models[1] ELSE c_models[2],
                                       InputLength(c_cycle))]]
    /\ UNCHANGED <<c_models, c_openai, c_cycle, c_pc, c_rng, c_thread, c_result,
                   c_seen, c_mem, c_micro, c_log, c_files, c_window, c_summary,
                   c_drift, c_sched, c_stages>>
    /\ UNCHANGED OtherVars

\* The outcome debate_once returns (debate.py 86-106)
DebateOutcome(d) ==
    [input |-> InputLength(c_cycle), resp_a |-> c_task["A"].len,
     resp_b |-> c_task["B"].len, winner |-> d.winner, reasoning |-> d.reasoning]

\* A driver that starts the filter thread and goes on without awaiting it.
DebateReturnsDetached ==
    /\ c_pc = "gather"
    /\ \A x \in Agents : c_task[x].st = "done"
    /\ LET d == DecideWinner(c_rng, c_task["A"].len, c_task["B"].len)
       IN /\ c_result' = <<DebateOutcome(d)>>
          /\ c_rng' = d.rng
    /\ c_task' = [x \in Agents |-> [st |-> "none", len |-> 0]]
    /\ c_thread' = [st |-> "started", tagged |-> <<>>, raised |-> FALSE]
    /\ c_mem' = <<<<>>>>
    /\ c_pc' = "micro"
    /\ c_stages' = Append(c_stages, "debate")
    /\ UNCHANGED <<c_models, c_openai, c_cycle, c_seen, c_micro, c_log,
                   c_files, c_window, c_summary, c_drift, c_sched>>
    /\ UNCHANGED OtherVars

\* debate.py 86-106 and runtest.py 20-30: both tasks are done, debate_once
\* decides and returns; run_cycle hands filter_memory to a worker thread
\* and is suspended until the thread is done.
DebateReturns ==
    /\ c_pc = "gather"
    /\ \A x \in Agents : c_task[x].st = "done"
    /\ LET d == DecideWinner(c_rng, c_task["A"].len, c_task["B"].len)
       IN /\ c_result' = <<DebateOutcome(d)>>
          /\ c_rng' = d.rng
    /\ c_task' = [x \in Agents |-> [st |-> "none", len |-> 0]]
    /\ c_thread' = [st |-> "started", tagged |-> <<>>, raised |-> FALSE]
    /\ c_pc' = "thread"
    /\ c_stages' = Append(c_stages, "debate")
    /\ UNCHANGED <<c_models, c_openai, c_cycle, c_seen, c_mem, c_micro, c_log,
                   c_files, c_window, c_summary, c_drift, c_sched>>
    /\ UNCHANGED OtherVars

\* memoryloop.py 64-66, in the worker thread: split, tag, add to _SEEN
ThreadTag ==
    /\ c_thread.st = "started"
    /\ LET text == NoteText(Get(c_result[1], "reasoning", ""))
           candidates == SelectSeq(split_into_chunks(text), NonEmpty)
           tg == tag_with_local_model(candidates, c_seen)
       IN /\ c_thread' = [st |-> "tagged", tagged |-> tg.results, raised |-> FALSE]
          /\ c_seen' = tg.seen
    /\ UNCHANGED <<c_models, c_openai, c_cycle, c_pc, c_rng, c_task, c_result,
                   c_mem, c_micro, c_log, c_files, c_window, c_summary, c_drift,
                   c_sched, c_stages>>
    /\ UNCHANGED OtherVars

\* memoryloop.py 68-97, in the worker thread: a sub-debate per candidate
\* (concluding with sts[i]), the guardian for the accepted ones, the result.
ThreadJudge ==
    /\ c_thread.st = "tagged"
    /\ \E sts \in [1..Len(c_thread.tagged) -> SubDebateOutcomes] :
          LET out == JudgeFrom(c_thread.tagged, sts, 1, <<>>, c_openai)
          IN /\ c_thread' = [st |-> "done", tagged |-> c_thread.tagged,
                             raised |-> out.raised]
             /\ c_mem' = IF out.raised THEN <<>> ELSE <<out.validated>>
    /\ UNCHANGED <<c_models, c_openai, c_cycle, c_pc, c_rng, c_task, c_result,
                   c_seen, c_micro, c_log, c_files, c_window, c_summary, c_drift,
                   c_sched, c_stages>>
    /\ UNCHANGED OtherVars

\* runtest.py 30-32: the await of the thread ends, with mem_out or with the
\* exception, which no one catches (run_cycle and main end with it); then
\* store_memories.
ThreadJoin ==
    /\ c_pc = "thread"
    /\ c_thread.st = "done"
    /\ c_thread' = NoThread
    /\ IF c_thread.raised
       THEN c_pc' = "raised" /\ UNCHANGED c_stages
       ELSE c_pc' = "micro" /\ c_stages' = c_stages \o <<"filter", "store">>
    /\ UNCHANGED <<c_models, c_openai, c_cycle, c_rng, c_task, c_result, c_seen,
                   c_mem, c_micro, c_log, c_files, c_window, c_summary, c_drift,
                   c_sched>>
    /\ UNCHANGED OtherVars

\* A schedule_training call of the current cycle
SchedCall(by, memories, target, ret) ==
    [by |-> by, memories |-> memories, target |-> target, ret |-> ret,
     stages |-> c_stages]

\* runtest.py 33: micro_finetune_step(result, validated, model_a, model_b)
\* (trainer.py 102-126)
MicroStage ==
    /\ c_pc = "micro"
    /\ LET diff == c_result[1].resp_a - c_result[1].resp_b
           loser == Loser(diff, c_models[1], c_models[2])
           delta == Abs(diff)
           credit == Get(c_micro, loser, 0) + delta
           out == schedule_training(c_mem[1], loser, c_files)
       IN IF IsNoOp(diff)
          THEN UNCHANGED <<c_micro, c_log, c_files, c_sched>>
          ELSE /\ c_log' = log_micro_update(c_log, loser, delta, c_cycle + 1)
               /\ IF Triggers(credit, c_mem[1])
                  THEN /\ c_files' = out.files
                       /\ c_micro' = Put(c_micro, loser, 0)
                       /\ c_sched' = Append(c_sched,
                              SchedCall("micro", c_mem[1], loser, out.ret))
                  ELSE /\ c_micro' = Put(c_micro, loser, credit)
                       /\ UNCHANGED <<c_files, c_sched>>
    /\ c_pc' = "drift"
    /\ c_stages' = Append(c_stages, "micro")
    /\ UNCHANGED <<c_models, c_openai, c_cycle, c_rng, c_task, c_thread, c_result,
                   c_seen, c_mem, c_window, c_summary, c_drift>>
    /\ UNCHANGED OtherVars

\* runtest.py 35-43: the sample, update, compute_summary, check_drift
DriftStage ==
    /\ c_pc = "drift"
    /\ LET w == DequeAppend(c_window, CycleMetrics(c_result[1]), DriverWindowSize)
           summary == compute_summary(w, DriverWindowSize)
       IN /\ c_window' = w
          /\ c_summary' = <<summary>>
          /\ c_drift' = <<check_drift(summary)>>
    /\ c_pc' = "schedule"
    /\ c_stages' = c_stages \o <<"window", "check">>
    /\ UNCHANGED <<c_models, c_openai, c_cycle, c_rng, c_task, c_thread, c_result,
                   c_seen, c_mem, c_micro, c_log, c_files, c_sched>>
    /\ UNCHANGED OtherVars

\* A cycle that ends without looking at the drift flag.
FinishCycleNoSchedule ==
    /\ c_pc = "schedule"
    /\ c_stages' = Append(c_stages, "recall")
    /\ c_cycle' = c_cycle + 1
    /\ c_pc' = "main"
    /\ UNCHANGED <<c_models, c_openai, c_rng, c_task, c_thread, c_result, c_seen,
                   c_mem, c_micro, c_log, c_window, c_summary, c_drift, c_files,
                   c_sched>>
    /\ UNCHANGED OtherVars

\* runtest.py 43-48: schedule_training for model A on drift, recall, and the
\* end of run_cycle; the loop of main goes to the next i.
FinishCycle ==
    /\ c_pc = "schedule"
    /\ LET out == schedule_training(c_mem[1], c_models[1], c_files)
       IN IF c_drift[1]
          THEN /\ c_files' = out.files
               /\ c_sched' = Append(c_sched,
                      SchedCall("drift", c_mem[1], c_models[1], out.ret))
               /\ c_stages' = c_stages \o <<"schedule", "recall">>
          ELSE /\ c_stages' = Append(c_stages, "recall")
               /\ UNCHANGED <<c_files, c_sched>>
    /\ c_cycle' = c_cycle + 1
    /\ c_pc' = "main"
    /\ UNCHANGED <<c_models, c_openai, c_rng, c_task, c_thread, c_result, c_seen,
                   c_mem, c_micro, c_log, c_window, c_summary, c_drift>>
    /\ UNCHANGED OtherVars

\* runtest.py 67-72: the loop is over, main returns
MainReturns ==
    /\ c_pc = "main"
    /\ c_cycle = DriverCycles
    /\ c_pc' = "finished"
    /\ UNCHANGED <<c_models, c_openai, c_cycle, c_rng, c_task, c_thread, c_result,
                   c_seen, c_mem, c_micro, c_log, c_files, c_window, c_summary,
                   c_drift, c_sched, c_stages>>
    /\ UNCHANGED OtherVars

CycleNext ==
    \/ StartCycle
    \/ \E x \in Agents : AgentCall(x)
    \/ DebateReturns
    \/ ThreadTag
    \/ ThreadJudge
    \/ ThreadJoin
    \/ MicroStage
    \/ DriftStage
    \/ FinishCycle
    \/ MainReturns

(***************************************************************************)
(* Specifications                                                          *)
(***************************************************************************)
DebateParked ==
    /\ seed = 0
    /\ user_input = "q1"
    /\ behaviour = [x \in Agents |-> Fail]
    /\ rng = [r \in Runs |-> 0]
    /\ pc = [r \in Runs |-> "start"]
    /\ mood = [r \in Runs |-> [x \in Agents |-> ""]]
    /\ task = [r \in Runs |-> [x \in Agents |-> NoTask]]
    /\ calls = [r \in Runs |-> [x \in Agents |-> 0]]
    /\ order = [r \in Runs |-> <<>>]
    /\ outcome = [r \in Runs |-> <<>>]

ValidateParked ==
    /\ v_openai = FALSE
    /\ v_key = "unset"
    /\ vpc = "start"
    /\ attempt = 0
    /\ delay = 0
    /\ requests = 0
    /\ sleeps = <<>>
    /\ v_log = <<>>
    /\ v_content = <<>>
    /\ v_ret = <<>>

DriftParked ==
    /\ d_size = 0
    /\ _window = <<>>
    /\ d_inserted = <<>>
    /\ d_last = "__init__"
    /\ d_summary = <<>>
    /\ d_drift = <<>>

\* Two executions of debate_once on the same arguments, interleaved freely.
InitDebate == DebateInit /\ FilterInit /\ ValidateParked /\ DriftParked /\ TrainerInit /\ CycleParked

SpecDebate == InitDebate /\ [][DebateNext]_vars

\* A sequence of filter_memory calls.
InitFilter == FilterInit /\ DebateParked /\ ValidateParked /\ DriftParked /\ TrainerInit /\ CycleParked

SpecFilter == InitFilter /\ [][FilterNext]_vars

\* One validate call, for every state of the environment.
InitValidate == ValidateInit /\ DebateParked /\ FilterInit /\ DriftParked /\ TrainerInit /\ CycleParked

SpecValidate == InitValidate /\ [][ValidateNext]_vars

\* Any sequence of operations on one DriftWindow of any capacity.
InitDrift == DriftInit /\ DebateParked /\ FilterInit /\ ValidateParked /\ TrainerInit /\ CycleParked

SpecDrift == InitDrift /\ [][DriftNext]_vars

\* Any sequence of schedule_training and micro_finetune_step calls.
InitTrainer == TrainerInit /\ DebateParked /\ FilterInit /\ ValidateParked /\ DriftParked /\ CycleParked

SpecTrainer == InitTrainer /\ [][TrainerNext]_vars

\* One run of main(), for every choice of the model names and with or
\* without the openai package.
InitCycle ==
    CycleInit /\ DebateParked /\ FilterInit /\ ValidateParked /\ DriftParked /\ TrainerInit

SpecCycle == InitCycle /\ [][CycleNext]_vars

(***************************************************************************)
(* Claims about debate_once (checked under SpecDebate)                     *)
(***************************************************************************)
HasOutcome(r) == outcome[r] # <<>>

\* C1: winner policy.  With d = |len(resp_a) - len(resp_b)|: if d < 10 the
\* winner is the value the supplied random source yields over <<A, B>> (the
\* source having been advanced by the two mood draws) and the reasoning is the
\* tie-break note; if d >= 10 the winner is the agent with the strictly longer
\* response and the reasoning is the length-preference note; lengths 50 and 70
\* give B for every seed.
C1_WinnerPolicy ==
    \A r \in Runs : HasOutcome(r) =>
        LET o == outcome[r][1]
            d == Abs(o.resp_a - o.resp_b)
            drawn == Choice(RngNext(RngNext(seed)), <<"A", "B">>).val
        IN /\ d < 10 => o.winner = drawn /\ o.reasoning = TieNote
           /\ d >= 10 => /\ o.resp_a # o.resp_b
                         /\ o.winner = (IF o.resp_a > o.resp_b THEN "A" ELSE "B")
                         /\ o.reasoning = LengthNote
           /\ (o.resp_a = 50 /\ o.resp_b = 70) => o.winner = "B"

C1_Witness ==
    /\ HasOutcome(1) /\ outcome[1][1].resp_a = 50 /\ outcome[1][1].resp_b = 70
    /\ outcome[1][1].winner = "B"
    /\ seed = MaxSeed

\* C2: every DebateOutcome that debate_once returns has winner A or B, for all
\* pairs of response lengths, equal lengths included; and a finished call has
\* returned exactly one outcome.
C2_WinnerAlwaysSet ==
    \A r \in Runs :
        /\ pc[r] = "done" => Len(outcome[r]) = 1
        /\ HasOutcome(r) => outcome[r][1].winner \in {"A", "B"}

C2_Witness ==
    /\ HasOutcome(1)
    /\ outcome[1][1].resp_a = outcome[1][1].resp_b
    /\ outcome[1][1].winner \in {"A", "B"}

\* C3: the two agent calls run concurrently and are joined: an outcome exists
\* only when both tasks were started and have completed, each result is
\* attributed to its agent whatever the completion order, and two executions
\* that finished their tasks in different orders return the same outcome.
C3_ConcurrentJoin ==
    /\ \A r \in Runs : HasOutcome(r) =>
          /\ \A x \in Agents : task[r][x].st = "done" /\ calls[r][x] = 1
          /\ Len(order[r]) = 2
          /\ outcome[r][1].resp_a = text_of(behaviour["A"])
          /\ outcome[r][1].resp_b = text_of(behaviour["B"])
    /\ \A r1, r2 \in Runs :
          (HasOutcome(r1) /\ HasOutcome(r2) /\ order[r1] # order[r2])
              => outcome[r1] = outcome[r2]

C3_Witness ==
    /\ HasOutcome(1) /\ HasOutcome(2)
    /\ order[1] = <<"A", "B">> /\ order[2] = <<"B", "A">>
    /\ outcome[1][1].resp_a # outcome[1][1].resp_b

\* C4: if either agent call fails, debate_once raises and returns no outcome,
\* and no agent is invoked more than once per debate_once call.
C4_FailurePropagates ==
    \A r \in Runs :
        /\ \A x \in Agents : calls[r][x] <= 1
        /\ (\E x \in Agents : task[r][x].st = "failed") =>
              /\ outcome[r] = <<>>
              /\ pc[r] \in {"await", "raised"}
        /\ (/\ pc[r] = "await"
            /\ \E x \in Agents : task[r][x].st = "failed"
            /\ \A x \in Agents : task[r][x].st \in {"done", "failed"}) =>
              (ENABLED Propagate(r)) /\ ~(ENABLED Join(r))
        /\ pc[r] = "raised" => \E x \in Agents : task[r][x].st = "failed"

C4_Witness ==
    /\ pc[1] = "raised"
    /\ task[1]["A"].st = "done" /\ task[1]["B"].st = "failed"
    /\ \A x \in Agents : calls[1][x] = 1
    /\ outcome[1] = <<>>

\* C5: debate_once is deterministic given the seed: two executions started
\* with the random source in the same state, on the same input, with agents
\* returning the same responses, return identical outcomes (moods, winner and
\* reasoning included) and leave the random source in the same state, also
\* when the winner comes from the tie-break.
C5_DeterministicGivenSeed ==
    \A r1, r2 \in Runs :
        (pc[r1] = "done" /\ pc[r2] = "done") =>
            /\ outcome[r1][1].mood_a = outcome[r2][1].mood_a
            /\ outcome[r1][1].mood_b = outcome[r2][1].mood_b
            /\ outcome[r1][1].winner = outcome[r2][1].winner
            /\ outcome[r1][1].reasoning = outcome[r2][1].reasoning
            /\ outcome[r1] = outcome[r2]
            /\ rng[r1] = rng[r2]

C5_Witness ==
    /\ pc[1] = "done" /\ pc[2] = "done"
    /\ outcome[1][1].reasoning = TieNote
    /\ outcome[1][1].resp_a # outcome[1][1].resp_b
    /\ outcome[1] = outcome[2]

(***************************************************************************)
(* Claims about filter_memory (checked under SpecFilter)                   *)
(***************************************************************************)
Returned == fpc = "idle" /\ result # <<>>

Processed == DOMAIN hist

VerdictOf(i) == Get(hist[i].verdict[1], "verdict", "None")

GuardianRejected(i) ==
    hist[i].status = "ACCEPTED" /\ hist[i].verdict # <<>> /\ VerdictOf(i) = "reject"

GuardianKept(i) ==
    hist[i].status = "ACCEPTED" /\ hist[i].verdict # <<>> /\ VerdictOf(i) # "reject"

ResultIsLists ==
    Returned => result[1].validated = validated /\ result[1].rejected = rejected

\* C6: a candidate whose sub-debate reached ACCEPTED and whose guardian
\* verdict is "reject" is in rejected with the guardian's rationale as its
\* reason, and no entry of validated stems from it.
C6_GuardianRejectIsRejected ==
    /\ ResultIsLists
    /\ Len(validated) = Cardinality({j \in Processed : hist[j].dest.list = "validated"})
    /\ \A i \in Processed : GuardianRejected(i) =>
          /\ hist[i].dest.list = "rejected"
          /\ hist[i].dest.pos \in DOMAIN rejected
          /\ rejected[hist[i].dest.pos] =
                [text |-> hist[i].text,
                 reason |-> Get(hist[i].verdict[1], "rationale", "")]

C6_Witness ==
    /\ Returned
    /\ \E i \in Processed :
          /\ GuardianRejected(i)
          /\ result[1].rejected[hist[i].dest.pos].reason = "unsafe"
          /\ result[1].validated = <<>>

\* C7: guardian_fn is called only for a candidate whose sub-debate has ended
\* ACCEPTED; a REJECTED or DEADLOCKED candidate causes no guardian call, so the
\* guardian calls of one filter_memory call number its ACCEPTED candidates.
C7_GuardianOnlyForAccepted ==
    /\ fpc \in {"guardian", "raised"} =>
          /\ status = "ACCEPTED"
          /\ round >= 1
          /\ Len(debate_log) = 2 * round
          /\ debate_log[Len(debate_log)].stance = "ACCEPT"
          /\ debate_log[Len(debate_log) - 1].stance = "ACCEPT"
    /\ \A i \in Processed : hist[i].called <=> hist[i].status = "ACCEPTED"
    /\ guardian_calls =
          Cardinality({i \in Processed : hist[i].status = "ACCEPTED"})
          + (IF fpc \in {"guardian", "raised"} THEN 1 ELSE 0)

C7_Witness ==
    /\ Returned
    /\ guardian_calls = 1
    /\ \E i, j \in Processed :
          hist[i].status = "DEADLOCKED" /\ hist[j].status = "ACCEPTED"

\* C8: an ACCEPTED candidate goes to validated for every guardian verdict
\* other than "reject", "unsure" with confidence 0.0 included.
C8_OnlyExplicitRejectFilters ==
    \A i \in Processed : GuardianKept(i) =>
        /\ hist[i].dest.list = "validated"
        /\ hist[i].dest.pos \in DOMAIN validated
        /\ validated[hist[i].dest.pos].text = hist[i].text
        /\ Returned => result[1].validated[hist[i].dest.pos].text = hist[i].text

C8_Witness ==
    /\ Returned
    /\ \E i \in Processed :
          /\ GuardianKept(i)
          /\ hist[i].verdict[1] =
                [verdict |-> "unsure",
                 rationale |-> "Validator unreachable after retries.",
                 confidence |-> 0]
          /\ result[1].validated[hist[i].dest.pos].confidence = 0

\* C9 as stated: a DEADLOCKED candidate is in rejected, not in validated, with
\* the recorded reason "status=DEADLOCKED".
C9_DeadlockReasonAsStated ==
    \A i \in Processed : hist[i].status = "DEADLOCKED" =>
        /\ hist[i].dest.list = "rejected"
        /\ hist[i].dest.pos \in DOMAIN rejected
        /\ rejected[hist[i].dest.pos].reason = "status=DEADLOCKED"

\* C9 amended: a DEADLOCKED candidate is in rejected, not in validated, and
\* its recorded reason is the status string itself, "DEADLOCKED".
C9_DeadlockIsRejection ==
    \A i \in Processed : hist[i].status = "DEADLOCKED" =>
        /\ hist[i].dest.list = "rejected"
        /\ hist[i].dest.pos \in DOMAIN rejected
        /\ rejected[hist[i].dest.pos] = [text |-> hist[i].text, reason |-> "DEADLOCKED"]
        /\ ~hist[i].called

C9_Witness ==
    /\ Returned
    /\ \E i \in Processed :
          /\ hist[i].status = "DEADLOCKED"
          /\ result[1].rejected[hist[i].dest.pos].reason = "DEADLOCKED"

\* C10: no candidate is dropped: every non-empty chunk of the reasoning is in
\* exactly one of validated and rejected (so their sizes add up to the number
\* of non-empty chunks), and every rejected entry carries a reason, the
\* sub-debate status or the guardian's rationale.
C10_NoSilentDrop ==
    /\ ResultIsLists
    /\ \A i \in Processed : hist[i].dest.list \in {"validated", "rejected"}
    /\ \A i, j \in Processed : i # j => hist[i].dest # hist[j].dest
    /\ Len(validated) + Len(rejected) = Len(hist)
    /\ \A i \in Processed : hist[i].dest.list = "rejected" =>
          /\ hist[i].dest.pos \in DOMAIN rejected
          /\ rejected[hist[i].dest.pos].text = hist[i].text
          /\ rejected[hist[i].dest.pos].reason =
                (IF hist[i].called THEN Get(hist[i].verdict[1], "rationale", "")
                 ELSE hist[i].status)
    /\ Returned =>
          LET chunks == SelectSeq(split_into_chunks(reasoning), NonEmpty)
          IN /\ Len(hist) = Len(chunks)
             /\ \A i \in Processed : hist[i].text = chunks[i]
             /\ Len(result[1].validated) + Len(result[1].rejected) = Len(chunks)

C10_Witness ==
    /\ Returned
    /\ Len(split_into_chunks(reasoning)) = 2
    /\ Len(result[1].validated) = 1
    /\ Len(result[1].rejected) = 1
    /\ result[1].rejected[1].reason = "DEADLOCKED"

\* The non-empty chunks of the current call that were reached before chunk i,
\* together with what was seen before the call.
SeenBefore(i) == seen0 \cup {tagged[j].text : j \in 1..(i - 1)}

LogOf(i) == Get(tagged[i], "debate_log", <<>>)

\* C11: the sub-debate of a candidate runs at most 2 rounds and ends with
\* exactly one status: a sub-debate still running has a round left in which it
\* can go on, and a concluded one has status ACCEPTED exactly when both sides
\* stated ACCEPT in its last round, REJECTED exactly when both stated REJECT,
\* DEADLOCKED exactly when round 2 ended in disagreement; every round before
\* the last was a disagreement.
C11_SubDebateBounded ==
    /\ round \in 0..2
    /\ fpc = "debate" =>
          /\ round < 2
          /\ \A sa \in Stances, sb \in Stances : ENABLED SubDebateRound(sa, sb)
    /\ \A i \in Processed :
          LET log == LogOf(i)
              n == Len(log) \div 2
          IN /\ n \in 1..2
             /\ Len(log) = 2 * n
             /\ \A k \in 1..n : log[2 * k - 1].round = k /\ log[2 * k].round = k
             /\ \A k \in 1..(n - 1) : log[2 * k - 1].stance # log[2 * k].stance
             /\ hist[i].status \in {"ACCEPTED", "REJECTED", "DEADLOCKED"}
             /\ hist[i].status = "ACCEPTED" <=>
                   (log[2 * n - 1].stance = "ACCEPT" /\ log[2 * n].stance = "ACCEPT")
             /\ hist[i].status = "REJECTED" <=>
                   (log[2 * n - 1].stance = "REJECT" /\ log[2 * n].stance = "REJECT")
             /\ hist[i].status = "DEADLOCKED" <=>
                   (n = 2 /\ log[2 * n - 1].stance # log[2 * n].stance)

C11_Witness ==
    /\ Returned
    /\ \E i, j \in Processed :
          /\ hist[i].status = "DEADLOCKED" /\ Len(LogOf(i)) = 4
          /\ hist[j].status = "ACCEPTED" /\ Len(LogOf(j)) = 4

\* C12 as stated: while the guardian evaluates an ACCEPTED candidate, the
\* payload bound by validate holds the chunk text and the candidate's full
\* consensus log.
C12_PayloadHasTextAndLog ==
    fpc = "guardian" =>
        LET b == ValidateBinding(guardian_args)
        IN /\ b.payload.text = tagged[idx].text
           /\ b.payload.log = debate_log

\* C13 as stated: every validated entry carries the chunk's tag, the guardian
\* confidence for the chunk and the candidate's consensus log.
C13_ValidatedCarriesLog ==
    \A i \in Processed : hist[i].dest.list = "validated" =>
        LET e == validated[hist[i].dest.pos]
        IN /\ e.tag = tagged[i].tag
           /\ e.confidence = Get(hist[i].verdict[1], "confidence", 0)
           /\ Get(e, "debate_log", <<>>) = LogOf(i)

\* C14 as stated: a chunk is tagged KNOWN exactly when its similarity ratio to
\* some chunk seen before it is at least 0.8.
C14_KnownAtOrAboveThreshold ==
    \A i \in DOMAIN tagged :
        tagged[i].tag =
            (IF \E s \in SeenBefore(i) :
                    10 * ratio(tagged[i].text, s)[1] >= 8 * ratio(tagged[i].text, s)[2]
             THEN "known" ELSE "new")

\* C14 amended: a chunk is tagged KNOWN exactly when its similarity ratio to
\* some chunk seen before it is strictly greater than 0.8 (a ratio of exactly
\* 0.8 gives NEW), and NEW otherwise, in particular when nothing was seen.
C14_KnownAboveThreshold ==
    \A i \in DOMAIN tagged :
        /\ tagged[i].tag =
              (IF \E s \in SeenBefore(i) :
                      10 * ratio(tagged[i].text, s)[1] > 8 * ratio(tagged[i].text, s)[2]
               THEN "known" ELSE "new")
        /\ SeenBefore(i) = {} => tagged[i].tag = "new"

C14_Witness ==
    /\ Len(tagged) = 2
    /\ seen0 = {}
    /\ ratio(tagged[2].text, tagged[1].text) = <<4, 5>>
    /\ tagged[1].tag = "new"
    /\ tagged[2].tag = "new"

C15_SeenState ==
    /\ seen0 \subseteq _SEEN
    /\ _SEEN = seen0 \cup {tagged[i].text : i \in DOMAIN tagged}
    /\ \A i \in DOMAIN tagged : tagged[i].text \in SeenBefore(i) => tagged[i].tag = "known"
    /\ \A i \in Processed : hist[i].text \in _SEEN

\* C15: the seen set only grows over any sequence of filter_memory calls: no
\* step removes a chunk, every chunk of a call is in the set whatever its tag
\* and whatever became of it in the sub-debate or at the guardian, and a chunk
\* whose exact text was reached before, in an earlier call or earlier in the
\* same call, is tagged KNOWN.
C15_SeenAppendOnly == [](C15_SeenState) /\ [][_SEEN \subseteq _SEEN']_vars

C15_Witness ==
    /\ Returned
    /\ ncalls = 2
    /\ Len(tagged) = 2
    /\ tagged[1].text \in seen0 /\ tagged[1].tag = "known"
    /\ tagged[2].text = tagged[1].text /\ tagged[2].tag = "known"
    /\ hist[1].dest.list = "rejected"
    /\ hist[2].dest.list = "validated"
    /\ Cardinality(_SEEN) = 1

RECURSIVE KeptConfidence(_)
\* Sum of the guardian confidences of the first n processed candidates that
\* went to validated.
KeptConfidence(n) ==
    IF n = 0 THEN 0
    ELSE KeptConfidence(n - 1)
         + (IF hist[n].dest.list = "validated"
            THEN Get(hist[n].verdict[1], "confidence", 0) ELSE 0)

\* C16: the confidence filter_memory returns is the arithmetic mean of the
\* guardian confidences of exactly the validated chunks, confidences of
\* guardian-rejected chunks left out, and 0.0 when nothing is validated.
C16_ConfidenceIsMeanOfValidated ==
    Returned =>
        LET c == result[1].confidence
            n == Len(result[1].validated)
        IN /\ n = Cardinality({i \in Processed : hist[i].dest.list = "validated"})
           /\ c.den > 0
           /\ IF n = 0 THEN c.num = 0
              ELSE c.num * n = KeptConfidence(Len(hist)) * c.den

C16_Witness ==
    /\ Returned
    /\ Len(hist) = 2
    /\ GuardianRejected(1) /\ Get(hist[1].verdict[1], "confidence", 0) = 90
    /\ GuardianKept(2) /\ Get(hist[2].verdict[1], "confidence", 0) = 50
    /\ result[1].confidence.num = 50 * result[1].confidence.den

(***************************************************************************)
(* Claims about validate (checked under SpecValidate)                      *)
(***************************************************************************)
ValidateReturned == vpc = "done" /\ v_ret # <<>>

ParsedResponse == ValidateReturned /\ v_content # <<>>

\* C17: one validate call issues at most 3 arbitration requests; once an
\* attempt has succeeded the call is over (no step that sends a request, and
\* no failure of a request, can follow) and nothing more is requested; when
\* 3 attempts have failed the call ends by returning verdict "unsure",
\* confidence 0.0 and the rationale "Validator unreachable after retries.",
\* and it never ends by raising because attempts failed.
C17_BoundedAttempts ==
    /\ requests \in 0..3
    /\ ParsedResponse =>
          /\ requests = Len(v_log) + 1
          /\ ~(ENABLED ValidateStart) /\ ~(ENABLED SleepEnds)
          /\ ~(ENABLED RequestRaises) /\ ~(ENABLED ResponseMalformed)
    /\ Len(v_log) = 3 =>
          /\ requests = 3
          /\ vpc \in {"sleep", "done"}
          /\ vpc = "sleep" => ENABLED SleepEnds
          /\ vpc = "done" =>
                v_ret = <<[verdict |-> Unsure, rationale |-> Unreachable,
                           confidence |-> 0]>>
    /\ vpc = "raised" => requests = 0

C17_Witness ==
    /\ ValidateReturned
    /\ requests = 3
    /\ Len(v_log) = 3
    /\ v_ret[1].verdict = <<"u", "n", "s", "u", "r", "e">>
    /\ v_ret[1].confidence = 0

\* C18: when the client library is missing, or the key is unset or empty,
\* validate returns verdict "unsure", confidence 0.0 and a rationale naming
\* the cause, having issued no request and waited for no backoff.
C18_NoCredentialsNoRequest ==
    (vpc # "start" /\ (~v_openai \/ v_key \in {"unset", "empty"})) =>
        /\ vpc = "done"
        /\ requests = 0
        /\ sleeps = <<>>
        /\ v_ret = <<[verdict |-> Unsure,
                      rationale |-> IF ~v_openai THEN OpenaiUnavailable ELSE MissingKey,
                      confidence |-> 0]>>

C18_Witness ==
    /\ ValidateReturned
    /\ v_openai
    /\ v_key = "unset"
    /\ v_ret[1].rationale = <<"m", "i", "s", "s", "i", "n", "g", " ", "A", "P", "I", " ", "k", "e", "y">>
    /\ requests = 0

\* C19: the backoff is exponential: the wait after the first failed attempt
\* is 2 time-units and each later wait is double the one before it, so the
\* waits before the second and the third request are 2 and 4; there are as
\* many waits as failed attempts, each begun by a failed attempt.
C19_ExponentialBackoff ==
    /\ \A k \in DOMAIN sleeps :
          sleeps[k] = (IF k = 1 THEN 2 ELSE 2 * sleeps[k - 1])
    /\ Len(sleeps) = Len(v_log)
    /\ vpc = "request" => requests = Len(sleeps) + 1
    /\ vpc = "sleep" => requests = Len(sleeps)
    /\ requests = 0 => sleeps = <<>>

C19_Witness ==
    /\ vpc = "request"
    /\ requests = 3
    /\ sleeps = <<2, 4>>

\* The line starts with the prefix p, letter case aside.
PrefixedCI(line, p) ==
    /\ Len(line) >= Len(p)
    /\ \A k \in DOMAIN p : upper(<<line[k]>>) = <<p[k]>>

\* The last line of the parsed response that is prefixed by p, or 0.
LastPrefixed(p) ==
    SetMax({0} \cup {i \in DOMAIN v_content[1] : PrefixedCI(v_content[1][i], p)})

\* The last CONFIDENCE line of the parsed response whose value is a number.
LastNumber ==
    SetMax({0} \cup {i \in DOMAIN v_content[1] :
                        /\ PrefixedCI(v_content[1][i], CONFIDENCE)
                        /\ float(Strip(AfterColon(v_content[1][i]))) # <<>>})

\* C20: the verdict, rationale and confidence of a parsed response are the
\* values of its lines prefixed VERDICT:, RATIONALE:, CONFIDENCE: (letter
\* case of the prefix aside); a missing line, and a CONFIDENCE value that is
\* not a number, leave the default: verdict "unsure", rationale "", confidence
\* 0.0.  Parsing neither raises nor uses up another attempt.
C20_ResponseParsing ==
    ParsedResponse =>
        LET c == v_content[1]
            r == v_ret[1]
        IN /\ r.verdict = (IF LastPrefixed(VERDICT) = 0 THEN <<"u", "n", "s", "u", "r", "e">>
                           ELSE lower(Strip(AfterColon(c[LastPrefixed(VERDICT)]))))
           /\ r.rationale = (IF LastPrefixed(RATIONALE) = 0 THEN <<>>
                             ELSE Strip(AfterColon(c[LastPrefixed(RATIONALE)])))
           /\ r.confidence = (IF LastNumber = 0 THEN 0
                              ELSE float(Strip(AfterColon(c[LastNumber])))[1])
           /\ requests = Len(v_log) + 1

C20_Witness ==
    /\ ParsedResponse
    /\ requests = 1
    /\ v_content[1] = << <<"v", "e", "r", "d", "i", "c", "t", ":", " ", "A", "c", "c", "e", "p", "t", " ">>, 
                          <<"C", "O", "N", "F", "I", "D", "E", "N", "C", "E", ":", " ", "h", "i", "g", "h">> >>
    /\ v_ret[1] = [verdict |-> <<"a", "c", "c", "e", "p", "t">>, rationale |-> <<>>, confidence |-> 0]

\* C21 as stated: every dict validate returns has verdict accept, reject or
\* unsure and a confidence within [0, 1], whatever the arbiter's response.
C21_VerdictWellFormed ==
    ValidateReturned =>
        /\ v_ret[1].verdict \in {<<"a", "c", "c", "e", "p", "t">>, <<"r", "e", "j", "e", "c", "t">>, <<"u", "n", "s", "u", "r", "e">>}
        /\ v_ret[1].confidence >= 0
        /\ v_ret[1].confidence <= 100

(***************************************************************************)
(* Claims about DriftWindow and check_drift (checked under SpecDrift)      *)
(***************************************************************************)
Min(a, b) == IF a < b THEN a ELSE b

RECURSIVE SumOf(_, _, _, _)
\* Sum of the field key over items lo..hi of the sequence q, a missing field
\* counting as 0.
SumOf(q, lo, hi, key) ==
    IF lo > hi THEN 0
    ELSE (IF key \in DOMAIN q[lo] THEN q[lo][key] ELSE 0) + SumOf(q, lo + 1, hi, key)

\* The summary s gives, for every metric, the mean over items lo..hi of q (and
\* zero when there is no item).
IsMeanOf(s, q, lo, hi) ==
    \A key \in {"agreement_rate", "guardian_override_rate", "avg_response_length_delta"} :
        /\ key \in DOMAIN s
        /\ s[key].den > 0
        /\ IF hi < lo THEN s[key].num = 0
           ELSE s[key].num * (hi - lo + 1) = SumOf(q, lo, hi, key) * s[key].den

\* C22: after n update calls on a window of capacity N the window holds
\* exactly the min(n, N) samples inserted last, in insertion order, so it never
\* holds more than N; a summary computed then is the mean over those samples
\* alone.
C22_WindowHoldsMostRecent ==
    LET n == Len(d_inserted)
        k == Min(n, d_size)
    IN /\ Len(_window) = k
       /\ Len(_window) <= d_size
       /\ \A i \in 1..k : _window[i] = d_inserted[n - k + i]
       /\ d_last = "compute_summary" => IsMeanOf(d_summary[1], d_inserted, n - k + 1, n)

C22_Witness ==
    /\ d_size = 2
    /\ Len(d_inserted) = 4
    /\ d_last = "compute_summary"
    /\ d_inserted[1].agreement_rate = 39
    /\ d_inserted[2].agreement_rate = 39
    /\ d_summary[1].agreement_rate.num = 200
    /\ d_summary[1].agreement_rate.den = 2

\* C23: compute_summary returns, for each of the three metrics, the mean of
\* that field over the samples in the window (all zero for an empty window),
\* and a compute_summary step leaves the window as it was.
C23_SummaryIsMean ==
    /\ [](d_last = "compute_summary" => IsMeanOf(d_summary[1], _window, 1, Len(_window)))
    /\ [][d_last' = "compute_summary" =>
             /\ _window' = _window
             /\ d_inserted' = d_inserted
             /\ IsMeanOf(d_summary'[1], _window, 1, Len(_window))]_vars

C23_Witness ==
    /\ d_last = "compute_summary"
    /\ d_size = 3
    /\ Len(_window) = 2
    /\ d_summary[1].agreement_rate = [num |-> 140, den |-> 2]
    /\ d_summary[1].guardian_override_rate = [num |-> 50, den |-> 2]
    /\ d_summary[1].avg_response_length_delta = [num |-> 100, den |-> 2]

\* C24: check_drift(summary) is true exactly when agreement_rate < 0.4 or
\* guardian_override_rate > 0.5 or avg_response_length_delta > 100; on the
\* bounds themselves it is false.
C24_DriftRule ==
    d_last = "check_drift" =>
        LET s == d_summary[1]
            ar == s.agreement_rate
            go == s.guardian_override_rate
            ld == s.avg_response_length_delta
        IN d_drift[1] = (\/ ar.num < 40 * ar.den
                         \/ go.num > 50 * go.den
                         \/ ld.num > 100 * ld.den)

C24_Witness ==
    /\ d_last = "check_drift"
    /\ d_summary[1].agreement_rate = [num |-> 40, den |-> 1]
    /\ d_summary[1].guardian_override_rate = [num |-> 50, den |-> 1]
    /\ d_summary[1].avg_response_length_delta = [num |-> 100, den |-> 1]
    /\ d_drift = <<FALSE>>

(***************************************************************************)
(* Claims about the trainer (checked under SpecTrainer)                    *)
(***************************************************************************)
\* schedule_training has just been called, directly or by micro_finetune_step
ScheduleCalled == t_last.op # "none" /\ t_last.invoked

JobProduced == ScheduleCalled /\ t_last.ret # "None"

\* Positions of the memories tagged new with confidence above 0.8
QualifyingIn(ms) ==
    {i \in DOMAIN ms :
        /\ "tag" \in DOMAIN ms[i] /\ ms[i].tag = "new"
        /\ "confidence" \in DOMAIN ms[i] /\ ms[i].confidence > 80}

\* The position of the k-th qualifying memory
NthQualifying(ms, k) ==
    CHOOSE i \in QualifyingIn(ms) : Cardinality({j \in QualifyingIn(ms) : j <= i}) = k

\* C25: the qualifying memories are those tagged new with confidence strictly
\* above 0.8; with fewer than 5 of them schedule_training returns none and
\* writes nothing; with 5 or more it returns the descriptor, which names the
\* target agent and the dataset location, the dataset being there.
C25_QualifyingThreshold ==
    ScheduleCalled =>
        IF Cardinality(QualifyingIn(t_last.memories)) < 5
        THEN t_last.ret = "None" /\ files = t_last.files_before
        ELSE /\ t_last.ret # "None"
             /\ t_last.ret \in DOMAIN files
             /\ files[t_last.ret] =
                   << <<"FROM", t_last.target>>, <<"TRAIN", "data/lora_train.jsonl">> >>
             /\ "data/lora_train.jsonl" \in DOMAIN files

C25_Witness ==
    /\ JobProduced
    /\ t_last.op = "schedule_training"
    /\ Len(t_last.memories) = 5
    /\ Cardinality(QualifyingIn(t_last.memories)) = 5
    /\ t_last.target = "agentB"

\* C26: when a job is produced the dataset holds one record per qualifying
\* memory and none for any other memory of the call, in input order, each the
\* prompt/response pair made from the memory's text.
C26_DatasetIsSelection ==
    JobProduced =>
        LET ms == t_last.memories
            ds == files["data/lora_train.jsonl"]
        IN /\ Len(ds) = Cardinality(QualifyingIn(ms))
           /\ \A k \in DOMAIN ds :
                 ds[k] = [prompt |-> <<"'", ms[NthQualifying(ms, k)].text, "'">>,
                          response |-> <<"'", ms[NthQualifying(ms, k)].text, "'">>]

C26_Witness ==
    /\ JobProduced
    /\ Len(t_last.memories) = 8
    /\ Len(files["data/lora_train.jsonl"]) = 5
    /\ files["data/lora_train.jsonl"][1].prompt = <<"'", "m2", "'">>

\* C27 as stated: once a descriptor and its dataset have been created, no
\* later operation changes them.
C27_JobWriteOnce ==
    t_first_job # NoJob =>
        /\ files["data/lora_train.Modelfile"] = t_first_job.descriptor[1]
        /\ files["data/lora_train.jsonl"] = t_first_job.dataset[1]

MicroStepped == t_last.op = "micro_finetune_step" /\ t_last.diff # 0

\* The agent whose response was the shorter one in the step just performed
ShorterAgent == IF t_last.diff < 0 THEN t_last.pair[1] ELSE t_last.pair[2]

CreditOf(state, agent) == IF agent \in DOMAIN state THEN state[agent] ELSE 0

\* C28: in a step with nonzero asymmetry the loser is the agent with the
\* shorter response, its credit has grown by |len(resp_a) - len(resp_b)| / 1000
\* (unless the step went on to reset it), and the credit of every other agent
\* is as before.
C28_LoserCredited ==
    MicroStepped =>
        /\ ShorterAgent \in DOMAIN _micro_state
        /\ \/ CreditOf(_micro_state, ShorterAgent)
                 = CreditOf(t_last.credit_before, ShorterAgent) + Abs(t_last.diff)
           \/ t_last.invoked /\ CreditOf(_micro_state, ShorterAgent) = 0
        /\ m_log[ShorterAgent].total_delta
              = (IF ShorterAgent \in DOMAIN t_last.log_before
                 THEN t_last.log_before[ShorterAgent].total_delta ELSE 0)
                + Abs(t_last.diff)
        /\ \A x \in ((DOMAIN _micro_state) \cup (DOMAIN t_last.credit_before))
                     \ {ShorterAgent} :
              /\ x \in DOMAIN _micro_state /\ x \in DOMAIN t_last.credit_before
              /\ _micro_state[x] = t_last.credit_before[x]

C28_Witness ==
    /\ MicroStepped
    /\ t_last.diff = -500
    /\ t_last.pair = <<"agentA", "agentB">>
    /\ CreditOf(_micro_state, "agentA") = 1000
    /\ CreditOf(_micro_state, "agentB") = 1100

\* C29: a step with zero asymmetry changes nothing: the credits, the metrics
\* log and the files are as before and schedule_training is not called, even
\* when a credit is above 1.0 and validated is non-empty.
C29_ZeroAsymmetryNoOp ==
    (t_last.op = "micro_finetune_step" /\ t_last.diff = 0) =>
        /\ _micro_state = t_last.credit_before
        /\ m_log = t_last.log_before
        /\ files = t_last.files_before
        /\ ~t_last.invoked

C29_Witness ==
    /\ t_last.op = "micro_finetune_step"
    /\ t_last.diff = 0
    /\ t_last.nonempty
    /\ t_last.pair = <<"llama3", "llama3">>
    /\ CreditOf(_micro_state, "llama3") > 1000

\* C30: in a step with nonzero asymmetry schedule_training is called, for the
\* loser and with the validated memories, exactly when the loser's credit
\* after the increment is strictly above 1.0 and validated is non-empty; then
\* the loser's credit is 0 afterwards whether or not a job was produced;
\* otherwise nothing is scheduled and the credit keeps the increment.
C30_TriggerAndReset ==
    MicroStepped =>
        LET raised == CreditOf(t_last.credit_before, ShorterAgent) + Abs(t_last.diff)
        IN /\ t_last.invoked <=> (raised > 1000 /\ t_last.nonempty)
           /\ t_last.invoked =>
                 /\ t_last.target = ShorterAgent
                 /\ t_last.memories # <<>>
                 /\ CreditOf(_micro_state, ShorterAgent) = 0
                 /\ t_last.ret = "None" => files = t_last.files_before
           /\ ~t_last.invoked =>
                 /\ CreditOf(_micro_state, ShorterAgent) = raised
                 /\ files = t_last.files_before

C30_Witness ==
    /\ MicroStepped
    /\ t_last.invoked
    /\ t_last.ret = "None"
    /\ CreditOf(t_last.credit_before, ShorterAgent) = 1000
    /\ CreditOf(_micro_state, ShorterAgent) = 0

\* What the loser's credit is after the increment of the step just performed
RaisedCredit == CreditOf(t_last.credit_before, ShorterAgent) + Abs(t_last.diff)

\* C31 as stated: after every call every agent's credit is at most 1.0.
C31_CreditAtMostCeiling ==
    \A agent \in DOMAIN _micro_state : _micro_state[agent] <= CreditCeiling

\* C31: in every step with nonzero asymmetry the loser's credit first grows;
\* it is reset to 0 in that same step exactly when the grown credit is above
\* 1.0 and validated is non-empty, so after a step with non-empty validated
\* the credit is at most 1.0; when validated is empty the credit is not reset
\* and keeps what it has grown to, also above 1.0.
C31_ResetNeedsValidated ==
    MicroStepped =>
        /\ RaisedCredit > CreditOf(t_last.credit_before, ShorterAgent)
        /\ t_last.nonempty =>
              /\ CreditOf(_micro_state, ShorterAgent) <= CreditCeiling
              /\ CreditOf(_micro_state, ShorterAgent)
                    = (IF RaisedCredit > CreditCeiling THEN 0 ELSE RaisedCredit)
        /\ ~t_last.nonempty => CreditOf(_micro_state, ShorterAgent) = RaisedCredit

C31_Witness ==
    /\ MicroStepped
    /\ ~t_last.nonempty
    /\ t_last.prev = <<t_last.diff, t_last.pair>>
    /\ CreditOf(t_last.credit_before, ShorterAgent) > CreditCeiling
    /\ CreditOf(_micro_state, ShorterAgent)
          > CreditOf(t_last.credit_before, ShorterAgent)

\* C32: every agent's credit is >= 0 at all times, and the credits change in
\* no operation other than a micro_finetune_step with nonzero asymmetry; a
\* direct schedule_training call leaves them as they are.
C32_CreditsNonNegative ==
    /\ [](\A agent \in DOMAIN _micro_state : _micro_state[agent] >= 0)
    /\ [][_micro_state' # _micro_state =>
             t_last'.op = "micro_finetune_step" /\ t_last'.diff # 0]_vars

C32_Witness ==
    /\ t_last.op = "schedule_training"
    /\ t_last.ret # "None"
    /\ CreditOf(_micro_state, t_last.target) > CreditCeiling
    /\ _micro_state = t_last.credit_before

\* The deltas of an agent's logged steps, in order
StepDeltas(steps) == [i \in 1..Len(steps) |-> steps[i].delta]

\* C33: every step with nonzero asymmetry appends exactly one step (timestamp,
\* delta) to the loser's entry of the metrics log and no other operation
\* touches the log; every agent's logged total is the sum of the deltas of its
\* logged steps; a logged total never decreases, also not when the credit is
\* reset, so it is always >= the agent's credit.
C33_LogTotals ==
    /\ [](/\ \A agent \in DOMAIN m_log :
               /\ m_log[agent].total_delta = SeqSum(StepDeltas(m_log[agent].steps))
               /\ m_log[agent].total_delta >= CreditOf(_micro_state, agent)
               /\ \A i \in 1..Len(m_log[agent].steps) :
                     m_log[agent].steps[i].delta > 0
          /\ DOMAIN _micro_state \subseteq DOMAIN m_log
          /\ MicroStepped =>
                /\ Len(m_log[ShorterAgent].steps)
                     = (IF ShorterAgent \in DOMAIN t_last.log_before
                        THEN Len(t_last.log_before[ShorterAgent].steps) ELSE 0) + 1
                /\ m_log[ShorterAgent].steps[Len(m_log[ShorterAgent].steps)]
                     = [ts |-> t_ops, delta |-> Abs(t_last.diff)]
                /\ \A agent \in DOMAIN m_log \ {ShorterAgent} :
                      /\ agent \in DOMAIN t_last.log_before
                      /\ m_log[agent] = t_last.log_before[agent]
          /\ (t_last.op # "none" /\ ~MicroStepped) => m_log = t_last.log_before)
    /\ [][\A agent \in DOMAIN m_log :
             /\ agent \in DOMAIN m_log'
             /\ m_log'[agent].total_delta >= m_log[agent].total_delta
             /\ Len(m_log'[agent].steps) >= Len(m_log[agent].steps)]_vars

C33_Witness ==
    /\ MicroStepped
    /\ t_last.invoked
    /\ CreditOf(_micro_state, ShorterAgent) = 0
    /\ Len(m_log[ShorterAgent].steps) = 2
    /\ m_log[ShorterAgent].total_delta = 1600

(***************************************************************************)
(* Claims about pick_mood (checked under SpecDebate)                       *)
(***************************************************************************)
MoodCatalog == {MOODS[i] : i \in 1..Len(MOODS)}

\* C36: in whatever state the random source is, pick_mood returns a member of
\* the mood catalog and advances the source by that one draw; the two moods
\* of a debate are drawn one after the other from the seeded source, nothing
\* else has changed when they have been drawn, and two debates whose sources
\* started in the same state have drawn the same moods.
C36_MoodFromCatalog ==
    /\ \A s \in 0..(RngMod - 1) :
          pick_mood(s).val \in MoodCatalog /\ pick_mood(s).rng = RngNext(s)
    /\ \A r \in Runs :
          /\ (pc[r] # "start") =>
                 /\ mood[r].A \in MoodCatalog /\ mood[r].B \in MoodCatalog
                 /\ mood[r].A = MOODS[(seed % Len(MOODS)) + 1]
                 /\ mood[r].B = MOODS[(RngNext(seed) % Len(MOODS)) + 1]
          /\ (pc[r] = "await") =>
                 /\ rng[r] = RngNext(RngNext(seed))
                 /\ outcome[r] = <<>>
    /\ \A r1, r2 \in Runs :
          (pc[r1] # "start" /\ pc[r2] # "start") => mood[r1] = mood[r2]

C36_Witness ==
    /\ seed = MaxSeed
    /\ pc[1] = "await" /\ pc[2] = "await"
    /\ mood[1].A = "creative"
    /\ mood[1].B = "skeptical"
    /\ mood[2] = mood[1]

(***************************************************************************)
(* Claims about the empty window (checked under SpecDrift)                 *)
(***************************************************************************)
\* C37: as long as no sample has been inserted, compute_summary returns
\* agreement_rate 0.0 (and 0.0 for the other two metrics) and check_drift of
\* that summary is true.
C37_EmptyWindowDrifts ==
    (d_inserted = <<>>) =>
        /\ (d_summary # <<>>) =>
               \A k \in MetricKeys : d_summary[1][k] = [num |-> 0, den |-> 1]
        /\ (d_last = "check_drift") => d_drift = <<TRUE>>

C37_Witness ==
    /\ d_inserted = <<>>
    /\ d_size = MaxWindow
    /\ d_last = "check_drift"
    /\ d_summary[1].agreement_rate = [num |-> 0, den |-> 1]
    /\ d_drift = <<TRUE>>

(***************************************************************************)
(* Claims about the cycle driver (checked under SpecCycle)                 *)
(***************************************************************************)
\* The activities that are in progress: agent tasks not yet run, the worker
\* thread before it is done, the driver coroutine unless it is suspended.
AgentTasksActive == {x \in Agents : c_task[x].st = "pending"}
ThreadActive == c_thread.st \in {"started", "tagged"}
DriverActive == c_pc \in {"main", "micro", "drift", "schedule"}

\* The stages of a cycle that ran to its end
FullCycle == <<"debate", "filter", "store", "micro", "window", "check", "recall">>
FullCycleScheduling ==
    <<"debate", "filter", "store", "micro", "window", "check", "schedule", "recall">>

\* C34: at any time either the driver coroutine alone is running, or the
\* filter thread alone while the driver awaits it, or the agent tasks of the
\* gather while the driver awaits them; the seen-chunk set changes only in a
\* step of the filter thread, the DriftWindow and the credits only in a step
\* of the driver while no task and no thread is in progress; and a cycle
\* starts only when all stages of the cycle before have finished.
C34_SequentialSingleWriter ==
    /\ [](/\ ThreadActive => (c_pc = "thread" /\ AgentTasksActive = {})
          /\ (AgentTasksActive # {}) => (c_pc = "gather" /\ ~ThreadActive)
          /\ DriverActive => (AgentTasksActive = {} /\ c_thread.st = "none")
          /\ \A x \in Agents : (c_task[x].st # "none") => c_pc = "gather")
    /\ [][/\ (c_seen' # c_seen) => (ThreadActive /\ ~DriverActive)
          /\ (c_window' # c_window) =>
                (c_pc = "drift" /\ ~ThreadActive /\ AgentTasksActive = {})
          /\ (c_micro' # c_micro) =>
                (c_pc = "micro" /\ ~ThreadActive /\ AgentTasksActive = {})
          /\ (c_cycle' # c_cycle) =>
                (c_cycle' = c_cycle + 1 /\ c_stages' \in {FullCycle, FullCycleScheduling})
          /\ (c_pc = "main" /\ c_pc' = "gather") =>
                /\ c_task' = [x \in Agents |-> [st |-> "pending", len |-> 0]]
                /\ IF c_cycle = 0 THEN c_stages = <<>>
                   ELSE c_stages \in {FullCycle, FullCycleScheduling}]_vars

C34_Witness ==
    /\ c_cycle = 1
    /\ c_pc = "gather"
    /\ AgentTasksActive = {"B"}
    /\ c_task["A"].st = "done"
    /\ c_seen # {}
    /\ Len(c_window) = 1

\* A cycle has run to its end and no other has begun
CycleDone == c_pc \in {"main", "finished"} /\ c_stages # <<>>

\* The schedule_training call made on drift in this cycle, if any
DriftCalls == {k \in 1..Len(c_sched) : c_sched[k].by = "drift"}

\* C35 as stated: when drift is flagged in a cycle, schedule_training is
\* called in that cycle after the window update and a descriptor is written.
C35_DriftMaterializesJob ==
    (CycleDone /\ c_drift = <<TRUE>>) =>
        \E k \in DriftCalls :
            /\ c_sched[k].ret # "None"
            /\ ModelfilePath \in DOMAIN c_files

\* C35: schedule_training is called on drift exactly in the cycles in which
\* check_drift flagged the summary, once, after the window update and the
\* check, as the last call of the cycle, for model A and with the cycle's
\* validated memories; it returns a descriptor only if at least 5 of them
\* qualify, and otherwise returns none and writes nothing.
C35_DriftInvokesScheduler ==
    CycleDone =>
        /\ (c_drift = <<TRUE>>) <=> (DriftCalls # {})
        /\ \A k \in DriftCalls :
              /\ k = Len(c_sched)
              /\ c_sched[k].target = c_models[1]
              /\ c_sched[k].memories = c_mem[1]
              /\ c_sched[k].stages
                    = <<"debate", "filter", "store", "micro", "window", "check">>
              /\ (c_sched[k].ret # "None")
                    <=> (Len(Selected(c_sched[k].memories)) >= MinSelected)
              /\ (c_sched[k].ret = "None") => ModelfilePath \notin DOMAIN c_files

C35_Witness ==
    /\ CycleDone
    /\ c_cycle = 1
    /\ c_drift = <<TRUE>>
    /\ Len(c_sched) = 1
    /\ c_sched[1].by = "drift"
    /\ Len(c_sched[1].memories) = 1
    /\ c_sched[1].ret = "None"

\* C38: every sample in the driver's window has agreement_rate 1.0 and
\* guardian_override_rate 0.0, the winner of every debate being A or B and
\* no outcome carrying a guardian verdict; so whenever check_drift flags the
\* summary, the mean length delta is above 100 and the other two tests fail.
C38_OnlyLengthDeltaDrifts ==
    /\ \A i \in 1..Len(c_window) :
          /\ c_window[i].agreement_rate = 100
          /\ c_window[i].guardian_override_rate = 0
    /\ (c_result # <<>>) =>
          /\ c_result[1].winner \in {"A", "B"}
          /\ "guardian_verdict" \notin DOMAIN c_result[1]
    /\ (c_summary # <<>>) =>
          /\ c_summary[1].agreement_rate.num = 100 * c_summary[1].agreement_rate.den
          /\ c_summary[1].guardian_override_rate.num = 0
    /\ (c_drift = <<TRUE>>) =>
          /\ Above(c_summary[1].avg_response_length_delta, LengthDeltaCeiling)
          /\ ~Below(c_summary[1].agreement_rate, AgreementFloor)
          /\ ~Above(c_summary[1].guardian_override_rate, OverrideCeiling)

C38_Witness ==
    /\ c_pc = "schedule"
    /\ Len(c_window) = 3
    /\ c_drift = <<TRUE>>
    /\ c_summary[1].agreement_rate = [num |-> 300, den |-> 3]
    /\ c_summary[1].avg_response_length_delta = [num |-> 363, den |-> 3]

\* C39: the reasoning of every outcome is one of the two notes; each note
\* splits into exactly one non-empty chunk; so at most one candidate is
\* tagged and at most one memory validated per cycle, every schedule_training
\* call of the driver, from micro_finetune_step or on drift, gets at most one
\* memory and returns none, and no job file is ever written.
C39_NeverEnoughMemories ==
    /\ \A note \in {TieNote, LengthNote} :
          Len(SelectSeq(split_into_chunks(NoteText(note)), NonEmpty)) = 1
    /\ (c_result # <<>>) => c_result[1].reasoning \in {TieNote, LengthNote}
    /\ Len(c_thread.tagged) <= 1
    /\ (c_thread.st \in {"tagged", "done"}) => Len(c_thread.tagged) = 1
    /\ (c_mem # <<>>) => Len(c_mem[1]) <= 1
    /\ \A k \in 1..Len(c_sched) :
          /\ Len(c_sched[k].memories) <= 1
          /\ c_sched[k].ret = "None"
    /\ c_files = <<>>

C39_Witness ==
    /\ CycleDone
    /\ Len(c_sched) = 2
    /\ c_sched[1].by = "micro"
    /\ c_sched[2].by = "drift"
    /\ Len(c_sched[1].memories) = 1
    /\ c_sched[1].ret = "None" /\ c_sched[2].ret = "None"
    /\ c_micro[c_sched[1].target] = 0

(***************************************************************************)
(* The keys of the credits (checked under SpecTrainer)                     *)
(***************************************************************************)
\* C40: the credits are keyed by agent identifier only. When both agents carry
\* the same identifier, the loser's entry is that one identifier whichever
\* side was shorter, the step adds to what either side accumulated before, no
\* other entry appears, and a reset leaves that single entry at 0.
C40_SharedEntry ==
    /\ DOMAIN _micro_state \subseteq Targets
    /\ (MicroStepped /\ t_last.pair[1] = t_last.pair[2]) =>
          /\ ShorterAgent = t_last.pair[1]
          /\ ShorterAgent \in DOMAIN _micro_state
          /\ DOMAIN _micro_state = DOMAIN t_last.credit_before \cup {t_last.pair[1]}
          /\ IF t_last.invoked
             THEN _micro_state[t_last.pair[1]] = 0
             ELSE _micro_state[t_last.pair[1]]
                     = CreditOf(t_last.credit_before, t_last.pair[1])
                       + Abs(t_last.diff)

C40_Witness ==
    /\ MicroStepped
    /\ t_last.pair = <<"llama3", "llama3">>
    /\ t_last.diff > 0
    /\ t_last.prev[2] = t_last.pair
    /\ t_last.prev[1] < 0
    /\ t_last.credit_before = [k \in {"llama3"} |-> Abs(t_last.prev[1])]
    /\ t_last.invoked
    /\ _micro_state = [k \in {"llama3"} |-> 0]

====
